---- MODULE Spec2Model ----
(***************************************************************************)
(* Engine API tree handler (crates/engine/tree/src/tree/mod.rs): the tree  *)
(* state, the detached-block buffer, the invalid header cache and          *)
(* on_new_payload, as a state machine; the handle through which engine     *)
(* messages are sent (crates/consensus/beacon/src/engine/handle.rs); the   *)
(* pipeline stage ids (crates/stages/types/src/id.rs).                     *)
(***************************************************************************)
EXTENDS Integers, Sequences, FiniteSets, TLC

VARIABLES
    blocks_by_hash,      \* TreeState.blocks_by_hash: hash -> executed block
    blocks_by_number,    \* TreeState.blocks_by_number: number -> Seq(executed block)
    buffer,              \* BlockBuffer: buffered block hashes, oldest first
    invalid_headers,     \* InvalidHeaderCache: entries [key, hdr], least recently used first
    is_pipeline_active,  \* EngineApiTreeHandlerImpl.is_pipeline_active
    sync_target,         \* forkchoice tracker's sync-target head, NoHash when there is none
    calls,               \* number of on_new_payload calls made so far
    marks,               \* number of headers marked invalid from outside on_new_payload
    valid_answered,      \* hashes on_new_payload answered VALID so far
    last,                \* the last on_new_payload call: its input and its outcome
    answers_before,      \* OrderSpec: what every payload was to be answered before the last call
    to_engine,           \* BeaconConsensusEngineHandle.to_engine: the messages sent and not yet taken
    rx_open,             \* the engine still holds the receiving end of to_engine
    oneshot,             \* request -> the oneshot channel its reply travels on
    awaiting,            \* request -> where its new_payload / fork_choice_updated call stands
    in_handler,          \* the message the engine is handling, as a set
    sent,                \* requests in the order their messages entered to_engine
    taken,               \* requests in the order the engine took their messages
    stage_at,            \* the two positions of StageId::ALL being read
    stage_read,          \* the stage ids read at these positions, <<>> before the read
    lvh_at,              \* where a latest_valid_hash_for_invalid_payload call stands
    lvh_current_hash,    \* its local current_hash
    lvh_current_header,  \* its local current_header, NoHash for None
    lvh_returned,        \* what it returned, NoHash for None
    handles,             \* the handles there are: the one new returned, and its clones
    launch_at,           \* where launch_rpc_servers stands
    launch_answers,      \* what its collaborators answer: TRUE for Ok, FALSE for Err
    rpc_server,          \* the regular RPC server: the future launch_rpc and its outcome
    auth_server,         \* the auth server: the future launch_auth and its outcome
    extend_rpc_modules_calls,  \* calls of the extend_rpc_modules hook so far
    on_rpc_started_calls,      \* calls of the on_rpc_started hook so far
    exec_at,             \* where Command::execute of `reth debug execution` stands
    to,                  \* Command.to
    interval,            \* Command.interval
    latest_block_number, \* its local latest_block_number: <<>> is None, <<n>> is Some(n)
    current_max_block,   \* its local current_max_block
    target_block,        \* its local target_block
    ranges               \* the ranges <<next_block, target_block>> handed to
                         \* take_block_and_execution_range so far

tree_vars == <<blocks_by_hash, blocks_by_number, buffer, invalid_headers,
               is_pipeline_active, sync_target, calls, marks, valid_answered, last,
               answers_before>>

handle_vars == <<to_engine, rx_open, oneshot, awaiting, in_handler, sent, taken>>

stage_vars == <<stage_at, stage_read>>

walk_vars == <<lvh_at, lvh_current_hash, lvh_current_header, lvh_returned>>

launch_vars == <<launch_at, launch_answers, rpc_server, auth_server,
                 extend_rpc_modules_calls, on_rpc_started_calls>>

exec_vars == <<exec_at, to, interval, latest_block_number, current_max_block,
               target_block, ranges>>

vars == <<tree_vars, handle_vars, stage_vars, walk_vars, handles, launch_vars,
          exec_vars>>

\* What the tree handler's own steps leave alone.
beside_tree == <<handle_vars, stage_vars, walk_vars, handles, launch_vars, exec_vars>>

\* What the steps of the handle and of the engine behind it leave alone.
beside_handle == <<stage_vars, walk_vars, handles, launch_vars, exec_vars>>

\* What the reads of StageId::ALL leave alone.
beside_stage == <<tree_vars, handle_vars, walk_vars, handles, launch_vars, exec_vars>>

\* What cloning the handle leaves alone.
beside_clone == <<tree_vars, handle_vars, stage_vars, walk_vars, launch_vars, exec_vars>>

\* What launch_rpc_servers leaves alone.
beside_launch == <<tree_vars, handle_vars, stage_vars, walk_vars, handles, exec_vars>>

\* What Command::execute leaves alone.
beside_exec == <<tree_vars, handle_vars, stage_vars, walk_vars, handles, launch_vars>>

\* What the steps of latest_valid_hash_for_invalid_payload leave alone.
beside_walk == <<handle_vars, stage_vars, handles, launch_vars, exec_vars>>

----------------------------------------------------------------------------
(* Bounds of the model. *)

\* on_new_payload calls in one run
MaxCalls == 2
\* headers marked invalid from outside on_new_payload in one run
MaxMarks == 2
\* capacity of the invalid header cache
InvalidCacheCap == 2
\* capacity of the detached-block buffer
BufferCap == 2
\* new_payload / fork_choice_updated calls made on the handle in one run
MaxRequests == 2
\* clones made of the handle in one run
MaxClones == 1
\* transition_configuration_exchanged calls made in one run
MaxNotifications == 1

\* The width in bits of the u64 of Command.to, Command.interval and the block
\* numbers of `reth debug execution`, reduced.
U64Bits == 3

----------------------------------------------------------------------------
(* Hashes and the block universe. *)

\* B256::ZERO
ZERO == 0
\* Option::None for a hash
NoHash == -1

\* The blocks a payload can carry.  Block 1 is the terminal PoW block and is
\* the only block of the persistent store.
Blocks == 1..7
Hashes == {ZERO} \cup Blocks

\* header.parent_hash of block h
ParentOf == <<0, 1, 2, 2, 3, 3, 1>>
\* header.number of block h
NumberOf == <<0, 1, 2, 2, 3, 3, 1>>
\* blocks with a non-zero header.difficulty (PoW blocks)
PowBlocks == {1}
\* blocks whose senders cannot be recovered (try_seal_with_senders fails)
SenderFaultBlocks == {7}
\* blocks that break a header or pre-execution consensus rule
PreExecFaultBlocks == {5}
\* blocks that break a post-execution consensus rule
PostExecFaultBlocks == {6}
\* blocks whose executed state root differs from header.state_root (no step
\* of insert_block_inner reads it)
StateRootMismatchBlocks == {4}
\* blocks held by the persistent store (the provider)
store == {1}

SealedBlock(h) == [hash |-> h, parent_hash |-> ParentOf[h], number |-> NumberOf[h]]

\* header.parent_hash of the header with hash h
HeaderParent(h) == ParentOf[h]

\* PayloadValidationError kinds of ensure_well_formed_payload; "ok" is a
\* well-formed payload
WfErrors == {"block_hash_mismatch", "invalid_versioned_hashes", "other"}

\* The parent hashes the ill-formed payloads declare
IllFormedParents == {1, 3}

\* The payloads submitted: a well-formed payload of every block, and ill-formed
\* payloads of every error kind (their declared block hash is never read).
Payloads ==
    {[block_hash |-> h, parent_hash |-> ParentOf[h], error |-> "ok"] : h \in Blocks}
    \cup [block_hash : {2}, parent_hash : IllFormedParents, error : WfErrors]

\* What the collaborators do during one call: "none" is no fault; "provider":
\* the database returns an error; "historical": the provider has no state for
\* a block it does not hold; "executor": the executor returns an error.
Faults == {"none", "provider", "historical", "executor"}

----------------------------------------------------------------------------
(* TreeState *)

\* TreeBlockByHash finding no block
TreeBlockByHashNever(hash) == NoHash

\* TreeState::block_by_hash
TreeBlockByHash(hash) ==
    IF hash \in DOMAIN blocks_by_hash THEN blocks_by_hash[hash].hash ELSE NoHash

\* InsertByNumber overwriting the blocks already at the number
InsertByNumberOverwrites(bn, b) == (b.number :> <<b>>) @@ bn

\* InsertByNumber putting the block in front of the blocks of its number
InsertByNumberFront(bn, b) ==
    IF b.number \in DOMAIN bn
    THEN [bn EXCEPT ![b.number] = <<b>> \o @]
    ELSE (b.number :> <<b>>) @@ bn

\* TreeState::insert_executed, on the by-number index
InsertByNumber(bn, b) ==
    IF b.number \in DOMAIN bn
    THEN [bn EXCEPT ![b.number] = Append(@, b)]
    ELSE (b.number :> <<b>>) @@ bn

\* InsertByHash losing the block
InsertByHashLost(bh, b) == bh

\* TreeState::insert_executed, on the by-hash index
InsertByHash(bh, b) == (b.hash :> b) @@ bh

\* BTreeMap::first_key_value: the lowest key
FirstKey(bn) == CHOOSE k \in DOMAIN bn : \A j \in DOMAIN bn : k <= j

\* RemoveHashes leaving blocks_by_hash as it is
RemoveHashesNone(bh, to_remove) == bh

\* RemoveHashes removing only the first block of the vector
RemoveHashesFirstOnly(bh, to_remove) ==
    [h \in DOMAIN bh \ {to_remove[i].hash : i \in {1} \cap DOMAIN to_remove} |-> bh[h]]

\* TreeState::remove_before: the loop over the popped vector
RemoveHashes(bh, to_remove) ==
    [h \in DOMAIN bh \ {to_remove[i].hash : i \in DOMAIN to_remove} |-> bh[h]]

\* RemoveBefore removing the blocks at block_number too
RECURSIVE RemoveBeforeInclusive(_, _, _)
RemoveBeforeInclusive(bh, bn, block_number) ==
    IF DOMAIN bn # {} /\ FirstKey(bn) <= block_number
    THEN LET k == FirstKey(bn)
         IN  RemoveBeforeInclusive(RemoveHashes(bh, bn[k]),
                                   [j \in DOMAIN bn \ {k} |-> bn[j]], block_number)
    ELSE [bh |-> bh, bn |-> bn]

\* TreeState::remove_before
RECURSIVE RemoveBefore(_, _, _)
RemoveBefore(bh, bn, block_number) ==
    IF DOMAIN bn # {} /\ FirstKey(bn) < block_number
    THEN LET k == FirstKey(bn)
         IN  RemoveBefore(RemoveHashes(bh, bn[k]),
                          [j \in DOMAIN bn \ {k} |-> bn[j]], block_number)
    ELSE [bh |-> bh, bn |-> bn]

----------------------------------------------------------------------------
(* InvalidHeaderCache: an LRU map, least recently used entry first. *)

CacheKeys(c) == {c[i].key : i \in 1..Len(c)}

CacheIndex(c, k) == CHOOSE i \in 1..Len(c) : c[i].key = k

\* the header stored for k, NoHash when there is none (no recency change)
CachePeek(c, k) == IF k \in CacheKeys(c) THEN c[CacheIndex(c, k)].hdr ELSE NoHash

CacheRemove(c, k) == SelectSeq(c, LAMBDA e : e.key # k)

\* CacheTouch taking the entry out of the cache
CacheTouchTakes(c, k) == CacheRemove(c, k)

\* the recency effect of InvalidHeaderCache::get
CacheTouch(c, k) ==
    IF k \in CacheKeys(c)
    THEN Append(CacheRemove(c, k), c[CacheIndex(c, k)])
    ELSE c

\* InvalidHeaderCache::insert_with_invalid_ancestor (and insert, with hdr = k)
CacheInsert(c, k, hdr) ==
    LET c1 == Append(CacheRemove(c, k), [key |-> k, hdr |-> hdr])
    IN  IF Len(c1) > InvalidCacheCap THEN Tail(c1) ELSE c1

----------------------------------------------------------------------------
(* BlockBuffer *)

BufferSet(b) == {b[i] : i \in 1..Len(b)}

\* BlockBuffer::insert_block: idempotent, the oldest entry is evicted at capacity
BufferInsert(b, h) ==
    IF h \in BufferSet(b) THEN b
    ELSE LET b1 == Append(b, h)
         IN  IF Len(b1) > BufferCap THEN Tail(b1) ELSE b1

\* h and its ancestors, nearest first
RECURSIVE AncestorChain(_)
AncestorChain(h) ==
    IF h \notin Blocks THEN <<>> ELSE <<h>> \o AncestorChain(ParentOf[h])

\* BlockBuffer::lowest_ancestor: the lowest-numbered buffered block among h and
\* its ancestors, NoHash when neither h nor an ancestor of h is buffered
LowestAncestor(b, h) ==
    LET chain == AncestorChain(h)
        hits  == {i \in 1..Len(chain) : chain[i] \in BufferSet(b)}
    IN  IF hits = {} THEN NoHash
        ELSE chain[CHOOSE i \in hits : \A j \in hits : j <= i]

----------------------------------------------------------------------------
(* EngineApiTreeHandlerImpl: helpers *)

\* block_by_hash: the store (database) first, then the in-memory tree
BlockByHash(hash) ==
    IF hash \in store THEN hash ELSE TreeBlockByHash(hash)

\* state_provider: the hash the historical provider is asked for, the parent
\* of the oldest in-memory block of the chain ending at hash
RECURSIVE HistoricalRoot(_)
HistoricalRoot(hash) ==
    IF hash \in DOMAIN blocks_by_hash
    THEN HistoricalRoot(blocks_by_hash[hash].parent_hash)
    ELSE hash

\* StateProviderWalk pushing each block at the end of in_memory
RECURSIVE StateProviderWalkPush(_, _)
StateProviderWalkPush(in_memory, parent_hash) ==
    IF parent_hash \in DOMAIN blocks_by_hash
    THEN LET executed == blocks_by_hash[parent_hash]
         IN  StateProviderWalkPush(Append(in_memory, executed), executed.parent_hash)
    ELSE <<in_memory, parent_hash>>

\* state_provider: the loop, which puts every block found in front of
\* in_memory, and the hash it ends with
RECURSIVE StateProviderWalk(_, _)
StateProviderWalk(in_memory, parent_hash) ==
    IF parent_hash \in DOMAIN blocks_by_hash
    THEN LET executed == blocks_by_hash[parent_hash]
         IN  StateProviderWalk(<<executed>> \o in_memory, executed.parent_hash)
    ELSE <<in_memory, parent_hash>>

\* state_provider: <<in_memory, the hash state_by_block_hash is called with>>
StateProvider(hash) == StateProviderWalk(<<>>, hash)

\* LowestBufferedAncestorOr taking the oldest buffered block, whatever its
\* relation to hash
LowestBufferedAncestorOrOldest(hash) ==
    IF buffer # <<>> THEN ParentOf[Head(buffer)] ELSE hash

\* lowest_buffered_ancestor_or
LowestBufferedAncestorOr(hash) ==
    LET lowest == LowestAncestor(buffer, hash)
    IN  IF lowest # NoHash THEN ParentOf[lowest] ELSE hash

\* InvalidAncestorCheckHash that leaves the buffer aside
InvalidAncestorCheckHashOwnParent(block_hash) == ParentOf[block_hash]

\* on_new_payload: the hash handed to the invalid-ancestor check
InvalidAncestorCheckHash(block_hash) ==
    LET lowest_buffered_ancestor == LowestBufferedAncestorOr(block_hash)
    IN  IF lowest_buffered_ancestor = block_hash
        THEN ParentOf[block_hash]
        ELSE lowest_buffered_ancestor

\* InvalidAncestorWalk that returns the first known hash, cached or not
RECURSIVE InvalidAncestorWalkStopsAtKnown(_, _, _)
InvalidAncestorWalkStopsAtKnown(c, current_hash, current_header) ==
    IF current_header = NoHash
    THEN [lvh |-> NoHash, cache |-> c]
    ELSE LET next_hash   == HeaderParent(current_header)
             next_header == CachePeek(c, next_hash)
             c1          == CacheTouch(c, next_hash)
         IN  IF BlockByHash(next_hash) # NoHash
             THEN [lvh |-> next_hash, cache |-> c1]
             ELSE InvalidAncestorWalkStopsAtKnown(c1, next_hash, next_header)

\* latest_valid_hash_for_invalid_payload: the loop over the invalid cache
RECURSIVE InvalidAncestorWalk(_, _, _)
InvalidAncestorWalk(c, current_hash, current_header) ==
    IF current_header = NoHash
    THEN [lvh |-> NoHash, cache |-> c]
    ELSE LET next_hash   == HeaderParent(current_header)
             next_header == CachePeek(c, next_hash)
             c1          == CacheTouch(c, next_hash)
         IN  IF next_header = NoHash /\ BlockByHash(next_hash) # NoHash
             THEN [lvh |-> next_hash, cache |-> c1]
             ELSE InvalidAncestorWalk(c1, next_hash, next_header)

\* latest_valid_hash_for_invalid_payload: the hash (NoHash for None) and the
\* cache as its lookups leave it
LatestValidHashForInvalidPayload(c, parent_hash) ==
    IF BlockByHash(parent_hash) # NoHash
    THEN [lvh |-> parent_hash, cache |-> c]
    ELSE InvalidAncestorWalk(CacheTouch(c, parent_hash), parent_hash,
                             CachePeek(c, parent_hash))

\* InvalidResponseStart that takes a zero difficulty for the mark of the
\* terminal PoW block
InvalidResponseStartZeroDifficulty(parent_hash) ==
    IF BlockByHash(parent_hash) # NoHash /\ parent_hash \notin PowBlocks
    THEN ZERO
    ELSE parent_hash

\* InvalidResponseStart without the terminal-PoW edge case
InvalidResponseStartNoPow(parent_hash) == parent_hash

\* prepare_invalid_response: the hash the walk starts from
InvalidResponseStart(parent_hash) ==
    IF BlockByHash(parent_hash) # NoHash /\ parent_hash \in PowBlocks
    THEN ZERO
    ELSE parent_hash

\* prepare_invalid_response: with_latest_valid_hash(valid_parent_hash.unwrap_or_default())
InvalidResponseLatestValidHash(valid_parent_hash) ==
    IF valid_parent_hash = NoHash THEN ZERO ELSE valid_parent_hash

\* prepare_invalid_response
PrepareInvalidResponse(c, parent_hash) ==
    LET r == LatestValidHashForInvalidPayload(c, InvalidResponseStart(parent_hash))
    IN  [status |-> "INVALID",
         lvh    |-> InvalidResponseLatestValidHash(r.lvh),
         cache  |-> r.cache]

\* CheckInvalidAncestorWithHead leaving the head out of the cache
CheckInvalidAncestorWithHeadNoInsert(c, check, head) ==
    LET header == CachePeek(c, check)
    IN  IF header = NoHash
        THEN [hit |-> FALSE, status |-> "NONE", lvh |-> NoHash, cache |-> c]
        ELSE LET st == PrepareInvalidResponse(CacheTouch(c, check), HeaderParent(header))
             IN  [hit |-> TRUE, status |-> st.status, lvh |-> st.lvh,
                  cache |-> st.cache]

\* CheckInvalidAncestorWithHead caching the parent of the invalid header in
\* place of the head
CheckInvalidAncestorWithHeadCachesParent(c, check, head) ==
    LET header == CachePeek(c, check)
    IN  IF header = NoHash
        THEN [hit |-> FALSE, status |-> "NONE", lvh |-> NoHash, cache |-> c]
        ELSE LET st == PrepareInvalidResponse(CacheTouch(c, check), HeaderParent(header))
                 parent == HeaderParent(header)
             IN  [hit    |-> TRUE,
                  status |-> st.status,
                  lvh    |-> st.lvh,
                  cache  |-> IF parent \in Blocks
                             THEN CacheInsert(st.cache, parent, parent)
                             ELSE st.cache]

\* CheckInvalidAncestorWithHead caching the header of head under check
CheckInvalidAncestorWithHeadSwapped(c, check, head) ==
    LET header == CachePeek(c, check)
    IN  IF header = NoHash
        THEN [hit |-> FALSE, status |-> "NONE", lvh |-> NoHash, cache |-> c]
        ELSE LET st == PrepareInvalidResponse(CacheTouch(c, check), HeaderParent(header))
             IN  [hit    |-> TRUE,
                  status |-> st.status,
                  lvh    |-> st.lvh,
                  cache  |-> CacheInsert(st.cache, check, head)]

\* check_invalid_ancestor_with_head, the provider answering
CheckInvalidAncestorWithHead(c, check, head) ==
    LET header == CachePeek(c, check)
    IN  IF header = NoHash
        THEN [hit |-> FALSE, status |-> "NONE", lvh |-> NoHash, cache |-> c]
        ELSE LET st == PrepareInvalidResponse(CacheTouch(c, check), HeaderParent(header))
             IN  [hit    |-> TRUE,
                  status |-> st.status,
                  lvh    |-> st.lvh,
                  cache  |-> CacheInsert(st.cache, head, header)]

\* validate_block: the header and pre-execution consensus rules
ValidateBlock(block_hash) == block_hash \notin PreExecFaultBlocks

\* WellFormednessLatestValidHash treating a versioned-hash mismatch like any
\* other error
WellFormednessLatestValidHashOnlyBlockHash(c, payload) ==
    IF payload.error = "block_hash_mismatch"
    THEN [lvh |-> NoHash, cache |-> c]
    ELSE LatestValidHashForInvalidPayload(c, payload.parent_hash)

\* on_new_payload: latest_valid_hash of an ill-formed payload
WellFormednessLatestValidHash(c, payload) ==
    IF payload.error \in {"block_hash_mismatch", "invalid_versioned_hashes"}
    THEN [lvh |-> NoHash, cache |-> c]
    ELSE LatestValidHashForInvalidPayload(c, payload.parent_hash)

----------------------------------------------------------------------------
(* Block insertion and buffering *)

\* insert_block_inner under fault.  res is the Ok value, an error kind, or
\* "panic" for a failed unwrap inside.
InsertBlockInner(block_hash, fault) ==
    LET block == SealedBlock(block_hash)
        same  == [bh |-> blocks_by_hash, bn |-> blocks_by_number]
        root  == HistoricalRoot(block.parent_hash)
    IN  IF fault = "provider"
        THEN same @@ [res |-> "provider_error", executed |-> FALSE]
        ELSE IF BlockByHash(block_hash) # NoHash
        THEN same @@ [res |-> "already_seen_valid", executed |-> FALSE]
        ELSE IF ~ValidateBlock(block_hash)
        THEN same @@ [res |-> "consensus_error", executed |-> FALSE]
        ELSE IF root \notin store /\ fault = "historical"
        THEN same @@ [res |-> "panic", executed |-> FALSE]
        ELSE IF fault = "executor"
        THEN same @@ [res |-> "panic", executed |-> TRUE]
        ELSE IF block_hash \in PostExecFaultBlocks
        THEN same @@ [res |-> "consensus_error", executed |-> TRUE]
        ELSE [res      |-> "inserted_valid",
              executed |-> TRUE,
              bh       |-> InsertByHash(blocks_by_hash, block),
              bn       |-> InsertByNumber(blocks_by_number, block)]

\* insert_block_without_senders and insert_block
InsertBlockWithoutSenders(block_hash, fault) ==
    IF block_hash \in SenderFaultBlocks
    THEN [res |-> "sender_recovery_error", executed |-> FALSE,
          bh |-> blocks_by_hash, bn |-> blocks_by_number]
    ELSE InsertBlockInner(block_hash, fault)

\* buffer_block_without_senders and buffer_block
BufferBlockWithoutSenders(block_hash) ==
    IF block_hash \in SenderFaultBlocks
    THEN [res |-> "sender_recovery_error", buffer |-> buffer]
    ELSE IF ~ValidateBlock(block_hash)
    THEN [res |-> "consensus_error", buffer |-> buffer]
    ELSE [res |-> "ok", buffer |-> BufferInsert(buffer, block_hash)]

\* InsertPayloadStatus forgetting latest_valid_hash for AlreadySeen(Valid)
InsertPayloadStatusForgetsSeen(res, block_hash) ==
    IF res = "inserted_valid"
    THEN [status |-> "VALID", lvh |-> block_hash]
    ELSE IF res = "already_seen_valid"
    THEN [status |-> "VALID", lvh |-> NoHash]
    ELSE [status |-> "SYNCING", lvh |-> NoHash]

\* on_new_payload: the payload status of an InsertPayloadOk
InsertPayloadStatus(res, block_hash) ==
    IF res \in {"inserted_valid", "already_seen_valid"}
    THEN [status |-> "VALID", lvh |-> block_hash]
    ELSE [status |-> "SYNCING", lvh |-> NoHash]

\* OutcomeEvent attaching MakeCanonical to every VALID outcome
OutcomeEventEveryValid(status, block_hash) ==
    IF status = "VALID" THEN block_hash ELSE NoHash

\* on_new_payload: the event attached to the outcome, NoHash for None,
\* the target of MakeCanonical otherwise
OutcomeEvent(status, block_hash) ==
    IF status = "VALID" /\ sync_target # NoHash /\ sync_target = block_hash
    THEN block_hash
    ELSE NoHash

\* BufferInsteadOfInsert never taking the buffering branch
BufferInsteadOfInsertNever == FALSE

\* on_new_payload: whether the block is buffered instead of inserted
BufferInsteadOfInsert == is_pipeline_active

----------------------------------------------------------------------------
(* on_new_payload *)

\* What a call leaves untouched unless its path says otherwise.
NoEffect ==
    [bh |-> blocks_by_hash, bn |-> blocks_by_number, buffer |-> buffer,
     cache |-> invalid_headers, status |-> "NONE", lvh |-> NoHash,
     event |-> NoHash, check |-> NoHash, hit_header |-> NoHash,
     executed |-> FALSE, insert_res |-> "none"]

\* on_new_payload: an ill-formed payload
IllFormedOutcome(payload, fault) ==
    IF payload.error \notin {"block_hash_mismatch", "invalid_versioned_hashes"}
       /\ fault = "provider"
    THEN [kind |-> "err", path |-> "well_formedness"] @@ NoEffect
    ELSE LET r == WellFormednessLatestValidHash(invalid_headers, payload)
         IN  [kind |-> "ok", path |-> "well_formedness", status |-> "INVALID",
              lvh |-> r.lvh, cache |-> r.cache] @@ NoEffect

\* InvalidAncestorOutcome that buffers the rejected block of an active
\* pipeline
InvalidAncestorOutcomeBuffers(block_hash, check, fault) ==
    IF fault = "provider"
    THEN [kind |-> "err", path |-> "invalid_ancestor", check |-> check,
          hit_header |-> CachePeek(invalid_headers, check),
          cache |-> CacheTouch(invalid_headers, check)] @@ NoEffect
    ELSE LET r == CheckInvalidAncestorWithHead(invalid_headers, check, block_hash)
         IN  [kind |-> "ok", path |-> "invalid_ancestor", check |-> check,
              hit_header |-> CachePeek(invalid_headers, check),
              status |-> r.status, lvh |-> r.lvh, cache |-> r.cache,
              buffer |-> IF is_pipeline_active
                         THEN BufferInsert(buffer, block_hash)
                         ELSE buffer] @@ NoEffect

\* on_new_payload: the block has an invalid ancestor
InvalidAncestorOutcome(block_hash, check, fault) ==
    IF fault = "provider"
    THEN [kind |-> "err", path |-> "invalid_ancestor", check |-> check,
          hit_header |-> CachePeek(invalid_headers, check),
          cache |-> CacheTouch(invalid_headers, check)] @@ NoEffect
    ELSE LET r == CheckInvalidAncestorWithHead(invalid_headers, check, block_hash)
         IN  [kind |-> "ok", path |-> "invalid_ancestor", check |-> check,
              hit_header |-> CachePeek(invalid_headers, check),
              status |-> r.status, lvh |-> r.lvh, cache |-> r.cache] @@ NoEffect

\* BufferOutcome answering ACCEPTED for a buffered block
BufferOutcomeAccepted(block_hash, check) ==
    LET b == BufferBlockWithoutSenders(block_hash)
    IN  IF b.res # "ok"
        THEN [kind |-> "panic", path |-> "buffer", check |-> check,
              insert_res |-> b.res] @@ NoEffect
        ELSE [kind |-> "ok", path |-> "buffer", check |-> check,
              insert_res |-> b.res, status |-> "ACCEPTED",
              buffer |-> b.buffer] @@ NoEffect

\* on_new_payload: the pipeline is active, the block is buffered
BufferOutcome(block_hash, check) ==
    LET b == BufferBlockWithoutSenders(block_hash)
    IN  IF b.res # "ok"
        THEN [kind |-> "panic", path |-> "buffer", check |-> check,
              insert_res |-> b.res] @@ NoEffect
        ELSE [kind |-> "ok", path |-> "buffer", check |-> check,
              insert_res |-> b.res, status |-> "SYNCING",
              buffer |-> b.buffer] @@ NoEffect

\* on_new_payload: the pipeline is idle, the block is inserted
InsertOutcome(block_hash, check, fault) ==
    LET ins == InsertBlockWithoutSenders(block_hash, fault)
    IN  IF ins.res \notin {"inserted_valid", "already_seen_valid"}
        THEN [kind |-> "panic", path |-> "insert", check |-> check,
              insert_res |-> ins.res, executed |-> ins.executed] @@ NoEffect
        ELSE LET st == InsertPayloadStatus(ins.res, block_hash)
             IN  [kind |-> "ok", path |-> "insert", check |-> check,
                  insert_res |-> ins.res, executed |-> ins.executed,
                  status |-> st.status, lvh |-> st.lvh,
                  event |-> OutcomeEvent(st.status, block_hash),
                  bh |-> ins.bh, bn |-> ins.bn] @@ NoEffect

\* on_new_payload, the whole call
OnNewPayloadOutcome(payload, fault) ==
    IF payload.error # "ok"
    THEN IllFormedOutcome(payload, fault)
    ELSE LET block_hash == payload.block_hash
             check      == InvalidAncestorCheckHash(block_hash)
         IN  IF CachePeek(invalid_headers, check) # NoHash
             THEN InvalidAncestorOutcome(block_hash, check, fault)
             ELSE IF BufferInsteadOfInsert
             THEN BufferOutcome(block_hash, check)
             ELSE InsertOutcome(block_hash, check, fault)

\* The record kept of a call: the payload, the state it met, and its outcome.
CallRecord(payload, out) ==
    [kind |-> out.kind, path |-> out.path, payload |-> payload,
     status |-> out.status, lvh |-> out.lvh, event |-> out.event,
     check |-> out.check, hit_header |-> out.hit_header,
     executed |-> out.executed, insert_res |-> out.insert_res,
     active |-> is_pipeline_active,
     known |-> BlockByHash(payload.block_hash) # NoHash,
     parent_known |-> BlockByHash(payload.parent_hash) # NoHash]

NoCall ==
    [kind |-> "none", path |-> "none",
     payload |-> [block_hash |-> 2, parent_hash |-> 1, error |-> "ok"],
     status |-> "NONE", lvh |-> NoHash, event |-> NoHash, check |-> NoHash,
     hit_header |-> NoHash, executed |-> FALSE, insert_res |-> "none",
     active |-> FALSE, known |-> FALSE, parent_known |-> FALSE]

\* A panic unwinds the handler: nothing runs after it.
Running == last.kind # "panic"

OnNewPayload(payload, fault) ==
    /\ Running
    /\ calls < MaxCalls
    /\ LET out == OnNewPayloadOutcome(payload, fault)
       IN  /\ blocks_by_hash' = out.bh
           /\ blocks_by_number' = out.bn
           /\ buffer' = out.buffer
           /\ invalid_headers' = out.cache
           /\ valid_answered' =
                IF out.kind = "ok" /\ out.status = "VALID"
                THEN valid_answered \cup {payload.block_hash}
                ELSE valid_answered
           /\ last' = CallRecord(payload, out)
    /\ calls' = calls + 1
    /\ UNCHANGED <<is_pipeline_active, sync_target, marks>>

----------------------------------------------------------------------------
(* The handler's surroundings *)

\* The headers that get marked invalid from outside on_new_payload
MarkableBlocks == {2, 3}

\* InvalidHeaderCache::insert: a header is marked invalid
MarkInvalid(h) ==
    /\ Running
    /\ marks < MaxMarks
    /\ BlockByHash(h) = NoHash
    /\ invalid_headers' = CacheInsert(invalid_headers, h, h)
    /\ marks' = marks + 1
    /\ UNCHANGED <<blocks_by_hash, blocks_by_number, buffer, is_pipeline_active,
                   sync_target, calls, valid_answered, last, answers_before,
                   beside_tree>>

\* The caller acknowledges BackfillAction::Start
BackfillStarted ==
    /\ Running
    /\ ~is_pipeline_active
    /\ is_pipeline_active' = TRUE
    /\ UNCHANGED <<blocks_by_hash, blocks_by_number, buffer, invalid_headers,
                   sync_target, calls, marks, valid_answered, last, answers_before,
                   beside_tree>>

\* The caller reports that backfill finished
BackfillFinished ==
    /\ Running
    /\ is_pipeline_active
    /\ is_pipeline_active' = FALSE
    /\ UNCHANGED <<blocks_by_hash, blocks_by_number, buffer, invalid_headers,
                   sync_target, calls, marks, valid_answered, last, answers_before,
                   beside_tree>>

\* No answers are kept.
NoAnswers ==
    [answers |-> <<>>, cache |-> <<>>, keys |-> {}, buffered |-> {}, marks |-> NoHash]

\* The sync targets a run starts with: none, or the head of a forkchoice
\* update for a block the handler did not have.
SyncTargets == {NoHash, 2}

\* The requests made on the handle; 0 stands for the handle's construction.
Requests == 1 .. MaxRequests

\* An engine message: BeaconEngineMessage::{EventListener, NewPayload,
\* ForkchoiceUpdated}, with the request whose reply sender it carries.
NoMessage == [head |-> NoHash, payload |-> NoCall.payload, kind |-> "none", id |-> 0]

Message(kind, id, payload, head) ==
    [NoMessage EXCEPT !.head = head, !.payload = payload, !.kind = kind, !.id = id]

\* What a call returns, or a reply carries: kind is "none" before there is
\* any, "ok" with a payload status, "err" with an error of the engine, and
\* "EngineUnavailable" for the handle's own error.
NoReply == [lvh |-> NoHash, status |-> "NONE", kind |-> "none"]

EngineUnavailable == [NoReply EXCEPT !.kind = "EngineUnavailable"]

\* One entry v for each of n requests.
RECURSIVE ForEachRequest(_, _)
ForEachRequest(v, n) == IF n = 0 THEN <<>> ELSE Append(ForEachRequest(v, n - 1), v)

\* BeaconConsensusEngineHandle::new: the handle sends EventListener once.
HandleNew ==
    /\ to_engine = <<Message("EventListener", 0, NoCall.payload, NoHash)>>
    /\ rx_open = TRUE
    /\ oneshot = ForEachRequest([reply |-> NoReply, state |-> "none"], MaxRequests)
    /\ awaiting = ForEachRequest([msg |-> NoMessage, pc |-> "idle", result |-> NoReply],
                                 MaxRequests)
    /\ in_handler = {}
    /\ sent = <<0>>
    /\ taken = <<>>
    /\ handles = 1

\* No latest_valid_hash_for_invalid_payload call was made.
WalkIdle ==
    /\ lvh_at = "idle"
    /\ lvh_current_hash = NoHash
    /\ lvh_current_header = NoHash
    /\ lvh_returned = NoHash

\* launch_rpc_servers was not called; its collaborators would all answer Ok.
LaunchIdle ==
    /\ launch_at = "start"
    /\ launch_answers = <<TRUE, TRUE, TRUE, TRUE, TRUE>>
    /\ rpc_server = "idle"
    /\ auth_server = "idle"
    /\ extend_rpc_modules_calls = 0
    /\ on_rpc_started_calls = 0

\* `reth debug execution` was not run.
ExecIdle ==
    /\ exec_at = "start"
    /\ to = 0
    /\ interval = 0
    /\ latest_block_number = <<>>
    /\ current_max_block = 0
    /\ target_block = 0
    /\ ranges = {}

\* Nothing else runs beside the tree handler, the handle and the readers of
\* StageId::ALL.
ElsewhereIdle == WalkIdle /\ LaunchIdle /\ ExecIdle

\* Nothing of StageId::ALL is being read.
StageIdle ==
    /\ stage_at = <<1, 1>>
    /\ stage_read = <<>>

\* The handler after construction.
TreeNew ==
    /\ blocks_by_hash = <<>>
    /\ blocks_by_number = <<>>
    /\ buffer = <<>>
    /\ invalid_headers = <<>>
    /\ is_pipeline_active = FALSE
    /\ sync_target \in SyncTargets
    /\ calls = 0
    /\ marks = 0
    /\ valid_answered = {}
    /\ last = NoCall
    /\ answers_before = NoAnswers

Init == TreeNew /\ HandleNew /\ StageIdle /\ ElsewhereIdle

NewPayload ==
    /\ \E payload \in Payloads, fault \in Faults : OnNewPayload(payload, fault)
    /\ UNCHANGED <<answers_before, beside_tree>>

Mark == \E h \in MarkableBlocks : MarkInvalid(h)

Next ==
    \/ NewPayload
    \/ Mark
    \/ BackfillStarted
    \/ BackfillFinished

Spec == Init /\ [][Next]_vars

----------------------------------------------------------------------------
(* Properties of on_new_payload *)

\* The step is an on_new_payload call.
IsCall == calls' = calls + 1

HashMismatchErrors == {"block_hash_mismatch", "invalid_versioned_hashes"}

\* C1: every call that answers VALID carries latest_valid_hash = the hash of
\* the submitted block, for a newly inserted block (Inserted(Valid)) and for
\* a block already known (AlreadySeen(Valid)) alike.
C1_ValidCarriesOwnHash ==
    (last.kind = "ok" /\ last.status = "VALID")
        => /\ last.lvh = last.payload.block_hash
           /\ last.insert_res \in {"inserted_valid", "already_seen_valid"}

\* A block inserted by an earlier call is submitted again and answered VALID.
C1_Witness ==
    /\ last.kind = "ok"
    /\ last.status = "VALID"
    /\ last.insert_res = "already_seen_valid"
    /\ last.payload.block_hash \in DOMAIN blocks_by_hash
    /\ last.lvh = last.payload.block_hash

\* C2: a payload rejected for a block-hash mismatch or a versioned-hash
\* mismatch is answered INVALID with latest_valid_hash = null, whatever the
\* tree, the buffer, the invalid cache and the pipeline-active flag hold.
C2_MismatchHasNullLatestValidHash ==
    (last.kind # "none" /\ last.payload.error \in HashMismatchErrors)
        => /\ last.kind = "ok"
           /\ last.status = "INVALID"
           /\ last.lvh = NoHash

\* A versioned-hash mismatch is rejected while the pipeline is active, the
\* declared parent is a known block and the invalid cache and the tree are
\* not empty.
C2_Witness ==
    /\ last.payload.error = "invalid_versioned_hashes"
    /\ last.status = "INVALID"
    /\ last.lvh = NoHash
    /\ last.parent_known
    /\ last.active
    /\ invalid_headers # <<>>
    /\ DOMAIN blocks_by_hash # {}

\* C3: when the hash handed to the invalid-ancestor check is in the invalid
\* cache, the call (unless the database fails under it) answers INVALID and
\* leaves the payload's block hash in the invalid cache with the header that
\* was stored for the checked hash.
C3_InvalidAncestorMarksHead ==
    [][(/\ IsCall
        /\ last'.payload.error = "ok"
        /\ CachePeek(invalid_headers, last'.check) # NoHash
        /\ last'.kind # "err")
        => /\ last'.kind = "ok"
           /\ last'.status = "INVALID"
           /\ CachePeek(invalid_headers', last'.payload.block_hash)
                = CachePeek(invalid_headers, last'.check)]_vars

\* A block is rejected for an invalid ancestor that was itself marked by
\* association, and is now in the cache with that ancestor's header.
C3_Witness ==
    /\ last.kind = "ok"
    /\ last.path = "invalid_ancestor"
    /\ last.status = "INVALID"
    /\ last.hit_header # last.check
    /\ CachePeek(invalid_headers, last.payload.block_hash) = last.hit_header

\* The nearest ancestor of block h that the tree or the store holds, NoHash
\* when there is none.
RECURSIVE NearestKnownAncestor(_)
NearestKnownAncestor(h) ==
    IF h \notin Blocks THEN NoHash
    ELSE IF BlockByHash(ParentOf[h]) # NoHash THEN ParentOf[h]
    ELSE NearestKnownAncestor(ParentOf[h])

\* The hash at which the invalid cache's parent links, followed from h, leave
\* the cache.
RECURSIVE CacheChainEnd(_, _)
CacheChainEnd(c, h) ==
    IF CachePeek(c, h) = NoHash THEN h
    ELSE CacheChainEnd(c, ParentOf[CachePeek(c, h)])

\* The last call is scenario S3: a well-formed payload H2 was checked against
\* its parent H1, and the invalid cache held H1 with H1's own header.
IsS3(call) ==
    /\ call.kind = "ok"
    /\ call.payload.error = "ok"
    /\ call.check = call.payload.parent_hash
    /\ call.hit_header = call.check

\* C4, as claimed: in S3 the answer is INVALID with latest_valid_hash = H0,
\* H1's parent when the tree holds it, else H1's nearest ancestor the tree
\* knows.
C4_Original ==
    IsS3(last) =>
        /\ last.status = "INVALID"
        /\ last.lvh = NearestKnownAncestor(last.payload.parent_hash)

\* C4, amended: in S3 the answer is INVALID; latest_valid_hash is H0 when the
\* tree or the store holds H0 and H0 has zero difficulty, the zero hash when
\* they hold H0 and H0 is a PoW block, and, when they do not hold H0 but the
\* invalid cache does, the hash at which the cache's parent links from H0
\* leave the cache, provided the tree or the store holds that hash.
C4_InvalidAncestorLatestValidHash ==
    [][(IsCall /\ IsS3(last'))
        => LET H0  == ParentOf[last'.payload.parent_hash]
               end == CacheChainEnd(invalid_headers, H0)
           IN  /\ last'.status = "INVALID"
               /\ (BlockByHash(H0) # NoHash /\ H0 \notin PowBlocks)
                    => last'.lvh = H0
               /\ (BlockByHash(H0) # NoHash /\ H0 \in PowBlocks)
                    => last'.lvh = ZERO
               /\ (BlockByHash(H0) = NoHash /\ end # H0 /\ BlockByHash(end) # NoHash)
                    => last'.lvh = end]_vars

\* S3 with H0 in the tree: H2 was answered INVALID with H0's hash.
C4_Witness ==
    /\ IsS3(last)
    /\ last.status = "INVALID"
    /\ ParentOf[last.payload.parent_hash] \in DOMAIN blocks_by_hash
    /\ last.lvh = ParentOf[last.payload.parent_hash]

\* The parent hash an INVALID answer is about: the payload's parent_hash for
\* an ill-formed payload, the parent of the invalid header that was hit for an
\* invalid ancestor.
RelevantParent(call) ==
    IF call.payload.error # "ok"
    THEN call.payload.parent_hash
    ELSE HeaderParent(call.hit_header)

\* C5, as claimed: an INVALID answer other than a hash mismatch carries what
\* latest_valid_hash_for_invalid_payload returns for the relevant parent hash,
\* and null when it returns None.  (The terminal-PoW edge case, a relevant
\* parent that is a known PoW block, is left aside.)
C5_InvalidCarriesHelperResult ==
    [][(/\ IsCall
        /\ last'.kind = "ok"
        /\ last'.status = "INVALID"
        /\ last'.payload.error \notin HashMismatchErrors
        /\ InvalidResponseStart(RelevantParent(last')) = RelevantParent(last'))
        => last'.lvh =
             LatestValidHashForInvalidPayload(invalid_headers,
                                              RelevantParent(last')).lvh]_vars

\* C6, as claimed: while the pipeline is active every status on_new_payload
\* returns is SYNCING.
C6_Original ==
    (last.kind = "ok" /\ last.active) => last.status = "SYNCING"

\* C6, amended: while the pipeline is active a returned status is SYNCING,
\* for a well-formed payload without invalid ancestor, or INVALID, for a
\* payload rejected by well-formedness validation or by the invalid-ancestor
\* check; it is never VALID.
C6_ActiveAnswersSyncingOrInvalid ==
    (last.kind = "ok" /\ last.active)
        => \/ /\ last.status = "SYNCING"
              /\ last.payload.error = "ok"
              /\ last.hit_header = NoHash
           \/ /\ last.status = "INVALID"
              /\ (last.payload.error # "ok" \/ last.hit_header # NoHash)

\* With the pipeline active, a well-formed block whose parent is known is
\* answered SYNCING and sits in the buffer.
C6_Witness ==
    /\ last.kind = "ok"
    /\ last.active
    /\ last.status = "SYNCING"
    /\ last.parent_known
    /\ last.payload.block_hash \in BufferSet(buffer)

\* C7: a call made while the pipeline is active does not invoke the executor
\* and leaves blocks_by_hash and blocks_by_number as they were.
C7_ActiveNeverExecutes ==
    [][(IsCall /\ is_pipeline_active)
        => /\ ~last'.executed
           /\ blocks_by_hash' = blocks_by_hash
           /\ blocks_by_number' = blocks_by_number]_vars

\* With the pipeline active and a non-empty tree, a new block whose parent is
\* in the tree was submitted, and was neither executed nor inserted.
C7_Witness ==
    /\ last.kind = "ok"
    /\ last.active
    /\ last.payload.error = "ok"
    /\ ~last.known
    /\ last.payload.parent_hash \in DOMAIN blocks_by_hash
    /\ ~last.executed
    /\ last.payload.block_hash \notin DOMAIN blocks_by_hash

\* C8, as claimed: the in-memory tree holds every hash answered VALID.
C8_Original ==
    \A h \in valid_answered : TreeBlockByHash(h) # NoHash

\* C8, amended: the handler's block_by_hash (the store first, then the
\* in-memory tree) returns a block for every hash answered VALID, and keeps
\* doing so across later calls.
C8_ValidStaysKnown ==
    \A h \in valid_answered : BlockByHash(h) # NoHash

\* A block answered VALID by the first call is in the tree after a second
\* call, for another payload, has been handled.
C8_Witness ==
    /\ calls = 2
    /\ last.kind = "ok"
    /\ \E h \in valid_answered :
         /\ h # last.payload.block_hash
         /\ TreeBlockByHash(h) = h

\* C9: the outcome carries MakeCanonical(block hash) exactly when the status is
\* VALID and the sync-target head is the payload's block hash; otherwise its
\* event is None.
C9_MakeCanonicalIffValidTarget ==
    [][(IsCall /\ last'.kind = "ok")
        => /\ last'.event \in {NoHash, last'.payload.block_hash}
           /\ last'.event = last'.payload.block_hash
                <=> (/\ last'.status = "VALID"
                     /\ sync_target # NoHash
                     /\ sync_target = last'.payload.block_hash)]_vars

\* The sync target was answered VALID and MakeCanonical was attached.
C9_Witness ==
    /\ last.kind = "ok"
    /\ last.status = "VALID"
    /\ last.event = last.payload.block_hash
    /\ sync_target = last.payload.block_hash

\* C10, as claimed: with the pipeline idle, a well-formed block that is new,
\* has no invalid ancestor and whose parent neither the tree nor the store
\* holds is answered SYNCING and buffered, and is not inserted in the tree.
\* (Blocks that break a consensus rule or lack senders, and calls under a
\* database or executor error, are left aside.)
C10_DetachedIsBuffered ==
    (/\ last.kind \in {"ok", "panic"}
     /\ ~last.active
     /\ last.payload.error = "ok"
     /\ last.hit_header = NoHash
     /\ ~last.known
     /\ ~last.parent_known
     /\ last.payload.block_hash \notin
          SenderFaultBlocks \cup PreExecFaultBlocks \cup PostExecFaultBlocks
     /\ last.insert_res # "provider_error"
     /\ ~(last.insert_res = "panic" /\ last.executed))
        => /\ last.kind = "ok"
           /\ last.status = "SYNCING"
           /\ last.payload.block_hash \in BufferSet(buffer)
           /\ last.payload.block_hash \notin DOMAIN blocks_by_hash

----------------------------------------------------------------------------
(* Errors of block insertion *)

\* C11, as claimed: when inserting the block fails with a consensus error
\* (a header, pre-execution or post-execution rule is broken), the block's
\* hash is put in the invalid cache, the call answers INVALID, and the block
\* is not in the tree.
C11_ConsensusErrorAnswersInvalid ==
    (last.path = "insert" /\ last.insert_res = "consensus_error")
        => /\ last.kind = "ok"
           /\ last.status = "INVALID"
           /\ last.payload.block_hash \in CacheKeys(invalid_headers)
           /\ last.payload.block_hash \notin DOMAIN blocks_by_hash

\* The call met a provider or executor error: the database failed under a
\* lookup, the provider had no state for the parent, or the executor failed.
MetInternalError(call) ==
    \/ call.kind = "err"
    \/ call.insert_res = "provider_error"
    \/ (call.path = "insert" /\ call.insert_res = "panic")

\* C12, as claimed: a call that meets a provider or executor error returns
\* an internal error to its caller, and adds no entry to the invalid cache.
C12_InternalErrorSurfaced ==
    [][(IsCall /\ MetInternalError(last'))
        => /\ last'.kind = "err"
           /\ CacheKeys(invalid_headers') \subseteq CacheKeys(invalid_headers)]_vars

\* C13, as claimed: no block whose executed state root differs from its
\* header's state_root is answered VALID.
C13_StateRootCheckedBeforeValid ==
    (last.kind = "ok" /\ last.status = "VALID")
        => last.payload.block_hash \notin StateRootMismatchBlocks

----------------------------------------------------------------------------
(* Order of submissions *)

\* The hashes a payload names: its block hash, its parent and the parent's
\* ancestors.
PayloadAncestry(payload) ==
    {payload.block_hash} \cup BufferSet(AncestorChain(payload.parent_hash))

\* Neither payload is an ancestor or a descendant of the other.
Unrelated(p, q) ==
    /\ q.block_hash \notin PayloadAncestry(p)
    /\ p.block_hash \notin PayloadAncestry(q)

\* What on_new_payload would answer for payload in the current state, no
\* collaborator failing: a payload status with its latest_valid_hash (or the
\* panic the call ends in).
Answer(payload) ==
    LET out == OnNewPayloadOutcome(payload, "none")
    IN  <<out.kind, out.status, out.lvh>>

\* on_new_payload calls in one run of OrderSpec
MaxOrderCalls == 1

\* A call, with the answers every payload would have got in its place, and
\* the invalid cache and the buffered blocks it met.
OrderNewPayload ==
    /\ calls < MaxOrderCalls
    /\ \E payload \in Payloads, fault \in Faults : OnNewPayload(payload, fault)
    /\ answers_before' =
         [answers  |-> [p \in Payloads |-> Answer(p)],
          cache    |-> invalid_headers,
          keys     |-> CacheKeys(invalid_headers),
          buffered |-> BufferSet(buffer),
          marks    |-> marks]
    /\ UNCHANGED beside_tree

OrderNext ==
    \/ OrderNewPayload
    \/ Mark
    \/ BackfillStarted
    \/ BackfillFinished

\* The handler taking a bounded number of calls, each call keeping the
\* answers of the state it met.
OrderSpec == Init /\ [][OrderNext]_vars

\* The state is the one the last call left, but for the pipeline flag having
\* been switched and switched back.
JustCalled ==
    /\ answers_before # NoAnswers
    /\ answers_before.marks = marks
    /\ last.active = is_pipeline_active

----------------------------------------------------------------------------
(* latest_valid_hash_for_invalid_payload and the growth of the invalid cache *)

\* The last call was rejected for an invalid ancestor and its block hash,
\* not in the invalid cache before, was put there.
CachedNewHead ==
    /\ JustCalled
    /\ last.kind = "ok"
    /\ last.path = "invalid_ancestor"
    /\ last.payload.block_hash \notin answers_before.keys

\* C15, as claimed: for every parent hash, the hash
\* latest_valid_hash_for_invalid_payload returns is the same before and after
\* the invalid-ancestor step has put a new head in the invalid cache (the
\* step leaves the tree and the store alone).
C15_Original ==
    CachedNewHead
        => \A p \in Hashes :
             LatestValidHashForInvalidPayload(invalid_headers, p).lvh
               = LatestValidHashForInvalidPayload(answers_before.cache, p).lvh

\* C15, amended: for every parent hash other than the new head and its
\* descendants, the hash latest_valid_hash_for_invalid_payload returns is the
\* same before and after the invalid-ancestor step has put the new head in the
\* invalid cache, provided the insertion evicts no entry.
C15_SameOffTheNewHead ==
    (CachedNewHead /\ answers_before.keys \subseteq CacheKeys(invalid_headers))
        => \A p \in Hashes :
             last.payload.block_hash \notin BufferSet(AncestorChain(p))
               => LatestValidHashForInvalidPayload(invalid_headers, p).lvh
                    = LatestValidHashForInvalidPayload(answers_before.cache, p).lvh

\* A new head was cached without eviction, and for the invalid ancestor it
\* was rejected for, the helper returns a known block, as before.
C15_Witness ==
    /\ CachedNewHead
    /\ answers_before.keys \subseteq CacheKeys(invalid_headers)
    /\ last.payload.block_hash \in CacheKeys(invalid_headers)
    /\ LatestValidHashForInvalidPayload(invalid_headers, last.check).lvh \in Blocks
    /\ LatestValidHashForInvalidPayload(answers_before.cache, last.check).lvh
         = LatestValidHashForInvalidPayload(invalid_headers, last.check).lvh

----------------------------------------------------------------------------
(* TreeState on its own: insert_executed and remove_before *)

\* The blocks insert_executed is given: insert_block_inner hands it no block
\* that block_by_hash already returns.
ExecutedBlocks == Blocks \ store

\* The block numbers remove_before is called with
RemoveBeforeNumbers ==
    LET numbers == {NumberOf[h] : h \in Blocks}
        top     == CHOOSE n \in numbers : \A m \in numbers : m <= n
    IN  0 .. (top + 1)

\* TreeState::insert_executed, for a hash not yet in the tree
TreeInsertExecuted(h) ==
    /\ h \notin DOMAIN blocks_by_hash
    /\ blocks_by_hash' = InsertByHash(blocks_by_hash, SealedBlock(h))
    /\ blocks_by_number' = InsertByNumber(blocks_by_number, SealedBlock(h))
    /\ last' = [kind |-> "insert_executed", hash |-> h]
    /\ UNCHANGED <<buffer, invalid_headers, is_pipeline_active, sync_target,
                   calls, marks, valid_answered, answers_before, beside_tree>>

\* TreeState::remove_before; last keeps the tree the call met
TreeRemoveBefore(block_number) ==
    /\ LET r == RemoveBefore(blocks_by_hash, blocks_by_number, block_number)
       IN  /\ blocks_by_hash' = r.bh
           /\ blocks_by_number' = r.bn
    /\ last' = [kind |-> "remove_before", block_number |-> block_number,
                bh |-> blocks_by_hash, bn |-> blocks_by_number]
    /\ UNCHANGED <<buffer, invalid_headers, is_pipeline_active, sync_target,
                   calls, marks, valid_answered, answers_before, beside_tree>>

TreeInit == Init /\ sync_target = NoHash

InsertExecuted == \E h \in ExecutedBlocks : TreeInsertExecuted(h)

RemoveBeforeCall == \E n \in RemoveBeforeNumbers : TreeRemoveBefore(n)

TreeNext ==
    \/ InsertExecuted
    \/ RemoveBeforeCall

TreeSpec == TreeInit /\ [][TreeNext]_vars

\* C16: for every hash h in blocks_by_hash the stored block's hash is h, and
\* blocks_by_number at that block's number contains a block with hash h,
\* after any sequence of insert_executed (of distinct hashes) and
\* remove_before.
C16_IndicesAgree ==
    \A h \in DOMAIN blocks_by_hash :
        /\ blocks_by_hash[h].hash = h
        /\ blocks_by_hash[h].number \in DOMAIN blocks_by_number
        /\ \E i \in DOMAIN blocks_by_number[blocks_by_hash[h].number] :
             blocks_by_number[blocks_by_hash[h].number][i].hash = h

\* After insertions and a remove_before that removed some blocks, the tree
\* holds two blocks of one number.
C16_Witness ==
    /\ last.kind = "remove_before"
    /\ DOMAIN last.bh # DOMAIN blocks_by_hash
    /\ \E n \in DOMAIN blocks_by_number : Len(blocks_by_number[n]) >= 2

\* C17: remove_before(N) removes from blocks_by_hash and from
\* blocks_by_number exactly the entries whose block number is below N, and
\* leaves every entry with a number >= N as it was.
C17_RemoveBeforeExact ==
    last.kind = "remove_before"
        => /\ DOMAIN blocks_by_hash
                = {h \in DOMAIN last.bh : last.bh[h].number >= last.block_number}
           /\ \A h \in DOMAIN blocks_by_hash : blocks_by_hash[h] = last.bh[h]
           /\ DOMAIN blocks_by_number
                = {n \in DOMAIN last.bn : n >= last.block_number}
           /\ \A n \in DOMAIN blocks_by_number : blocks_by_number[n] = last.bn[n]

\* remove_before(N) met blocks below N, at N and above N: the first are gone,
\* the others are kept.
C17_Witness ==
    /\ last.kind = "remove_before"
    /\ \E n \in DOMAIN last.bn : n < last.block_number
    /\ last.block_number \in DOMAIN blocks_by_number
    /\ \E n \in DOMAIN blocks_by_number : n > last.block_number
    /\ DOMAIN blocks_by_hash # DOMAIN last.bh

\* C18: remove_before(n) with n above every block number inserted leaves
\* blocks_by_hash and blocks_by_number both empty.
C18_RemoveAllEmpties ==
    (/\ last.kind = "remove_before"
     /\ \A n \in DOMAIN last.bn : n < last.block_number)
        => /\ DOMAIN blocks_by_hash = {}
           /\ DOMAIN blocks_by_number = {}

\* remove_before(n) met blocks at several numbers, two of one number among
\* them, all below n, and left the tree empty.
C18_Witness ==
    /\ last.kind = "remove_before"
    /\ Cardinality(DOMAIN last.bn) >= 2
    /\ \E n \in DOMAIN last.bn : Len(last.bn[n]) >= 2
    /\ \A n \in DOMAIN last.bn : n < last.block_number
    /\ DOMAIN blocks_by_hash = {}
    /\ DOMAIN blocks_by_number = {}

----------------------------------------------------------------------------
(* on_forkchoice_updated *)

\* The heads of the forkchoice states submitted: the zero hash, a block the
\* store holds, and blocks the handler may or may not have.
ForkchoiceHeads == {ZERO, 1, 2, 3}

\* on_forkchoice_updated: its body is todo!(), the call panics
OnForkchoiceUpdated(head) ==
    /\ Running
    /\ last' = [head |-> head, head_known |-> BlockByHash(head) # NoHash]
                 @@ [NoCall EXCEPT !.kind = "panic", !.path = "forkchoice_updated"]
    /\ UNCHANGED <<blocks_by_hash, blocks_by_number, buffer, invalid_headers,
                   is_pipeline_active, sync_target, calls, marks, valid_answered,
                   answers_before>>

ForkchoiceUpdated ==
    /\ \E head \in ForkchoiceHeads : OnForkchoiceUpdated(head)
    /\ UNCHANGED beside_tree

ForkchoiceNext ==
    \/ OrderNewPayload
    \/ Mark
    \/ BackfillStarted
    \/ BackfillFinished
    \/ ForkchoiceUpdated

\* The handler taking payloads and forkchoice updates.
ForkchoiceSpec == Init /\ [][ForkchoiceNext]_vars

\* The step is an on_forkchoice_updated call.
IsForkchoiceCall == last' # last /\ last'.path = "forkchoice_updated"

\* C19, as claimed: on_forkchoice_updated with the zero hash as head returns
\* INVALID, and leaves the tree, the buffer and the sync target as they were.
C19_ZeroHeadAnswersInvalid ==
    [][(IsForkchoiceCall /\ last'.head = ZERO)
        => /\ last'.kind = "ok"
           /\ last'.status = "INVALID"
           /\ UNCHANGED <<blocks_by_hash, blocks_by_number, buffer, sync_target>>]_vars

\* C20, as claimed: on_forkchoice_updated with a head the handler does not
\* have makes head the sync target, returns SYNCING and attaches
\* Download(head) to the outcome.
C20_UnknownHeadStartsSync ==
    [][(IsForkchoiceCall /\ last'.head # ZERO /\ ~last'.head_known)
        => /\ last'.kind = "ok"
           /\ last'.status = "SYNCING"
           /\ last'.event = last'.head
           /\ sync_target' = last'.head]_vars

\* The forkchoice heads further from the canonical tip (block 1, the one
\* block of the store) than the backfill threshold.
FarHeads == {3}

\* C21, as claimed: on_forkchoice_updated with a head further from the
\* canonical tip than the backfill threshold returns SYNCING and attaches
\* BackfillAction::Start(head); while the backfill runs every on_new_payload
\* returns SYNCING and executes no block, and once it is over blocks are
\* inserted again instead of buffered.
C21_BackfillTrigger ==
    [][/\ (IsForkchoiceCall /\ last'.head \in FarHeads)
            => /\ last'.kind = "ok"
               /\ last'.status = "SYNCING"
               /\ last'.event = last'.head
       /\ (IsCall /\ is_pipeline_active)
            => /\ last'.kind = "ok"
               /\ last'.status = "SYNCING"
               /\ ~last'.executed
       /\ (IsCall /\ ~is_pipeline_active)
            => last'.path # "buffer"]_vars

----------------------------------------------------------------------------
(* The engine handle: new_payload and fork_choice_updated send a message   *)
(* with a oneshot reply sender on an unbounded channel and await the reply. *)
(* The engine that holds the receiving end takes the messages and hands     *)
(* them to the tree handler; when the handler panics the engine's task is   *)
(* unwound and the receiving end and the reply senders it held are dropped. *)

\* The blocks whose payloads are sent through the handle, and the heads.
HandleBlocks == {2, 6}

HandlePayloads == {p \in Payloads : p.error = "ok" /\ p.block_hash \in HandleBlocks}

HandleHeads == {2}

SendFront(queue, msg) == <<msg>> \o queue

\* UnboundedSender::send while the receiving end is open: never waits, the
\* message goes behind those already sent.
Send(queue, msg) == Append(queue, msg)

AwaitReplyIgnoresDrop(os) == os.reply

\* rx.await.map_err(|_| EngineUnavailable): the reply if one was sent, the
\* error if the reply sender was dropped.
AwaitReply(os) == IF os.state = "sent" THEN os.reply ELSE EngineUnavailable

\* The oneshot channels after the reply senders still held, those of the
\* first n requests, are dropped.
RECURSIVE DroppedUpTo(_, _)
DroppedUpTo(os, n) ==
    IF n = 0 THEN os
    ELSE LET rest == DroppedUpTo(os, n - 1)
         IN  IF rest[n].state = "open" THEN [rest EXCEPT ![n].state = "dropped"] ELSE rest

SendersDropped(os) == DroppedUpTo(os, Len(os))

\* let (tx, rx) = oneshot::channel(); let _ = self.to_engine.send(msg):
\* a message sent on a closed channel is dropped, its reply sender with it.
SendToEngine(id, msg) ==
    /\ awaiting[id].pc = "idle"
    /\ IF rx_open
       THEN /\ to_engine' = Send(to_engine, msg)
            /\ sent' = Append(sent, id)
            /\ oneshot' = [oneshot EXCEPT ![id].state = "open"]
       ELSE /\ oneshot' = [oneshot EXCEPT ![id].state = "dropped"]
            /\ UNCHANGED <<to_engine, sent>>
    /\ awaiting' = [awaiting EXCEPT ![id].msg = msg, ![id].pc = "waiting"]
    /\ UNCHANGED <<rx_open, in_handler, taken, tree_vars, beside_handle>>

\* BeaconConsensusEngineHandle::new_payload, up to rx.await
HandleNewPayload(id, payload) ==
    SendToEngine(id, Message("NewPayload", id, payload, NoHash))

\* BeaconConsensusEngineHandle::fork_choice_updated, up to the first await
HandleForkChoiceUpdated(id, head) ==
    SendToEngine(id, Message("ForkchoiceUpdated", id, NoCall.payload, head))

\* rx.await resolves and the call returns
ReplyReceived(id) ==
    /\ awaiting[id].pc = "waiting"
    /\ oneshot[id].state \in {"sent", "dropped"}
    /\ awaiting' = [awaiting EXCEPT ![id].pc = "done",
                                    ![id].result = AwaitReply(oneshot[id])]
    /\ UNCHANGED <<to_engine, rx_open, oneshot, in_handler, sent, taken,
                   tree_vars, beside_handle>>

\* The engine takes the next message; the handler's operations take
\* &mut self, so that one runs at a time.
EngineTake ==
    /\ rx_open
    /\ to_engine # <<>>
    /\ in_handler = {}
    /\ LET msg == Head(to_engine)
       IN  /\ to_engine' = Tail(to_engine)
           /\ taken' = Append(taken, msg.id)
           /\ in_handler' = IF msg.kind \in {"EventListener",
                                              "TransitionConfigurationExchanged"}
                             THEN {}
                             ELSE {msg}
    /\ UNCHANGED <<rx_open, oneshot, awaiting, sent, tree_vars, beside_handle>>

\* The engine's task ends: the receiving end, the messages still queued
\* and every reply sender are dropped.
EngineDown ==
    /\ rx_open' = FALSE
    /\ to_engine' = <<>>
    /\ in_handler' = {}
    /\ oneshot' = SendersDropped(oneshot)

\* The engine hands a NewPayload message to on_new_payload and sends the
\* result on the reply sender.
EngineOnNewPayload ==
    /\ \E msg \in in_handler :
          /\ msg.kind = "NewPayload"
          /\ OnNewPayload(msg.payload, "none")
          /\ LET out == OnNewPayloadOutcome(msg.payload, "none")
             IN  IF out.kind = "panic"
                 THEN EngineDown
                 ELSE /\ oneshot' = [oneshot EXCEPT
                                        ![msg.id].reply = [NoReply EXCEPT !.lvh = out.lvh,
                                                                          !.status = out.status,
                                                                          !.kind = out.kind],
                                        ![msg.id].state = "sent"]
                      /\ in_handler' = {}
                      /\ UNCHANGED <<to_engine, rx_open>>
    /\ UNCHANGED <<awaiting, sent, taken, answers_before, beside_handle>>

\* The engine hands a ForkchoiceUpdated message to on_forkchoice_updated.
EngineOnForkchoiceUpdated ==
    /\ \E msg \in in_handler :
          /\ msg.kind = "ForkchoiceUpdated"
          /\ OnForkchoiceUpdated(msg.head)
    /\ EngineDown
    /\ UNCHANGED <<awaiting, sent, taken, beside_handle>>

\* The engine shuts down between two messages.
EngineClosed ==
    /\ rx_open
    /\ in_handler = {}
    /\ EngineDown
    /\ UNCHANGED <<awaiting, sent, taken, tree_vars, beside_handle>>

NewPayloadCalled ==
    \E id \in Requests, payload \in HandlePayloads : HandleNewPayload(id, payload)

ForkChoiceUpdatedCalled ==
    \E id \in Requests, head \in HandleHeads : HandleForkChoiceUpdated(id, head)

ReplyAwaited == \E id \in Requests : ReplyReceived(id)

HandleNext ==
    \/ NewPayloadCalled
    \/ ForkChoiceUpdatedCalled
    \/ ReplyAwaited
    \/ EngineTake
    \/ EngineOnNewPayload
    \/ EngineOnForkchoiceUpdated
    \/ EngineClosed

\* Callers of the handle and the engine behind it.
HandleSpec == Init /\ [][HandleNext]_vars

\* The same, with a task that awaits a oneshot receiver woken up once the
\* reply is sent or the sender dropped.
HandleLiveSpec ==
    HandleSpec /\ \A id \in Requests : WF_vars(ReplyReceived(id))

\* The messages of new_payload and fork_choice_updated calls sent and not
\* yet taken.
QueuedCalls ==
    Cardinality({i \in DOMAIN to_engine : to_engine[i].kind # "EventListener"})

\* A capacity that fewer messages fit in than there are callers.
QueueCapacity == MaxRequests - 1

\* C22, as claimed: the messages enqueued by new_payload and
\* fork_choice_updated and not yet taken never exceed the queue's capacity;
\* a sender that finds the queue full is held back.
C22_QueueBounded == QueuedCalls <= QueueCapacity

\* Sequence a is the beginning of sequence b.
IsPrefix(a, b) ==
    /\ Len(a) <= Len(b)
    /\ \A i \in DOMAIN a : a[i] = b[i]

\* Request i's message was taken before request j's.
TakenBefore(i, j) ==
    \E m, n \in DOMAIN taken : m < n /\ taken[m] = i /\ taken[n] = j

\* Request id was the last the handler worked on, and it is answered.
LastHandled(id) ==
    /\ taken # <<>>
    /\ taken[Len(taken)] = id
    /\ in_handler = {}
    /\ oneshot[id].state = "sent"

\* C23: the engine takes the messages in the order they were sent, the
\* handler works on one message at a time, and a payload handled after
\* another payload sees what that one left: a block that an earlier
\* request got inserted is a known block to a later request for it.
C23_FifoOneAtATime ==
    /\ IsPrefix(taken, sent)
    /\ Cardinality(in_handler) <= 1
    /\ \A i, j \in Requests :
          ( /\ TakenBefore(i, j)
            /\ awaiting[i].msg.kind = "NewPayload"
            /\ awaiting[j].msg.kind = "NewPayload"
            /\ awaiting[i].msg.payload = awaiting[j].msg.payload
            /\ oneshot[i].state = "sent"
            /\ oneshot[i].reply.status = "VALID"
            /\ LastHandled(j) )
          => /\ last.payload = awaiting[j].msg.payload
             /\ last.known
             /\ last.insert_res = "already_seen_valid"

\* The second request was sent first and taken first, both were for the
\* same block, and the handler found the block known when the first
\* request's message came.
C23_Witness ==
    /\ sent = <<0, 2, 1>>
    /\ taken = sent
    /\ awaiting[1].msg.kind = "NewPayload"
    /\ awaiting[1].msg.payload = awaiting[2].msg.payload
    /\ oneshot[2].state = "sent"
    /\ oneshot[2].reply.status = "VALID"
    /\ LastHandled(1)
    /\ last.known

\* The engine is gone for request id: the receiving end is closed and no
\* reply was sent, or the reply sender was dropped.
EngineGone(id) ==
    \/ ~rx_open /\ oneshot[id].state # "sent"
    \/ oneshot[id].state = "dropped"

----------------------------------------------------------------------------
(* StageId *)

\* The variants of StageId that carry no string.
NamedVariants ==
    {"StaticFile", "Headers", "Bodies", "SenderRecovery", "Execution", "MerkleUnwind",
     "AccountHashing", "StorageHashing", "MerkleExecute", "TransactionLookup",
     "IndexStorageHistory", "IndexAccountHistory", "Finish"}

\* The strings given to StageId::Other, one of them the name of a variant.
OtherNames == {"Custom", "Headers"}

\* A stage id: its variant and, for Other, its string.
Named(variant) == <<variant, "">>

Other(s) == <<"Other", s>>

StageIds == {Named(v) : v \in NamedVariants} \cup {Other(s) : s \in OtherNames}

\* The stages of the pipeline: every stage id but the deprecated StaticFile
\* and the custom ones.
PipelineStages == {Named(v) : v \in NamedVariants \ {"StaticFile"}}

ALLStaticFileFirst ==
    <<Named("StaticFile"), Named("Headers"), Named("Bodies"), Named("SenderRecovery"),
      Named("Execution"), Named("MerkleUnwind"), Named("AccountHashing"),
      Named("StorageHashing"), Named("MerkleExecute"), Named("TransactionLookup"),
      Named("IndexStorageHistory"), Named("IndexAccountHistory")>>

\* StageId::ALL
ALL ==
    <<Named("Headers"), Named("Bodies"), Named("SenderRecovery"), Named("Execution"),
      Named("MerkleUnwind"), Named("AccountHashing"), Named("StorageHashing"),
      Named("MerkleExecute"), Named("TransactionLookup"), Named("IndexStorageHistory"),
      Named("IndexAccountHistory"), Named("Finish")>>

\* Two positions of StageId::ALL are chosen.
StageInit ==
    /\ TreeNew /\ sync_target = NoHash
    /\ HandleNew
    /\ ElsewhereIdle
    /\ stage_at \in (DOMAIN ALL) \X (DOMAIN ALL)
    /\ stage_read = <<>>

\* StageId::ALL[i] and StageId::ALL[j] are read.
ReadStages ==
    /\ stage_read = <<>>
    /\ stage_read' = <<ALL[stage_at[1]], ALL[stage_at[2]]>>
    /\ UNCHANGED <<stage_at, beside_stage>>

\* StageId::ALL.first() is read.
ReadFirst ==
    /\ stage_read = <<>>
    /\ stage_read' = <<Head(ALL)>>
    /\ UNCHANGED <<stage_at, beside_stage>>

StageNext ==
    \/ ReadStages
    \/ ReadFirst

\* Readers of StageId::ALL.
StageSpec == StageInit /\ [][StageNext]_vars

\* C25: Headers is the first entry of StageId::ALL, and StageId::ALL holds
\* each of the twelve pipeline stages once and nothing else, neither
\* StaticFile nor an Other stage: first() reads Headers, and the stages read
\* at two positions are the same stage only if the positions are the same.
C25_AllStagesOnceHeadersFirst ==
    /\ Cardinality(PipelineStages) = 12
    /\ \A stage \in PipelineStages :
          Cardinality({i \in DOMAIN ALL : ALL[i] = stage}) = 1
    /\ \A stage \in StageIds \ PipelineStages :
          \A i \in DOMAIN ALL : ALL[i] # stage
    /\ Len(stage_read) = 1 => stage_read[1] = Named("Headers")
    /\ Len(stage_read) = 2
          => /\ stage_read[1] \in PipelineStages
             /\ stage_at[1] = 1 => stage_read[1] = Named("Headers")
             /\ (stage_read[1] = stage_read[2]) <=> (stage_at[1] = stage_at[2])

\* The first and the last entry of StageId::ALL were read: Headers and Finish.
C25_Witness ==
    /\ stage_at = <<1, 12>>
    /\ stage_read = <<Named("Headers"), Named("Finish")>>

----------------------------------------------------------------------------
(* latest_valid_hash_for_invalid_payload and prepare_invalid_response *)

\* The walk as described: from hash h up the parent links of the invalid
\* cache, the first hash the tree or the store has; none once a hash is in
\* neither the cache nor the tree or store.
RECURSIVE FirstKnownUpTheCache(_)
FirstKnownUpTheCache(h) ==
    IF BlockByHash(h) # NoHash THEN h
    ELSE IF CachePeek(invalid_headers, h) = NoHash THEN NoHash
    ELSE FirstKnownUpTheCache(HeaderParent(CachePeek(invalid_headers, h)))

\* The walk past the hashes the invalid cache holds: from a cached hash h
\* up the parent links, the first hash that is not cached, if the tree or
\* the store has it, and none if they do not.
RECURSIVE FirstUncachedUpTheCache(_)
FirstUncachedUpTheCache(h) ==
    IF CachePeek(invalid_headers, h) # NoHash
    THEN FirstUncachedUpTheCache(HeaderParent(CachePeek(invalid_headers, h)))
    ELSE IF BlockByHash(h) # NoHash THEN h ELSE NoHash

\* C26, as claimed: latest_valid_hash_for_invalid_payload(parent_hash) is
\* the first hash of the tree or store met on the way from parent_hash up
\* the parent links of the invalid cache, whether the cache holds that hash
\* or not, and None if the way ends at a hash nobody has.
C26_Original ==
    \A parent_hash \in Hashes :
        LatestValidHashForInvalidPayload(invalid_headers, parent_hash).lvh
            = FirstKnownUpTheCache(parent_hash)

\* C26, amended: parent_hash itself is returned when the tree or the store
\* has it, cached or not; past parent_hash the walk goes on through every
\* hash the invalid cache holds, even one the tree or the store has, and
\* returns the first hash that is not cached if the tree or the store has
\* it, None otherwise.
C26_WalkSkipsCachedHashes ==
    \A parent_hash \in Hashes :
        LatestValidHashForInvalidPayload(invalid_headers, parent_hash).lvh
            = IF BlockByHash(parent_hash) # NoHash THEN parent_hash
              ELSE IF CachePeek(invalid_headers, parent_hash) = NoHash THEN NoHash
              ELSE FirstUncachedUpTheCache(parent_hash)

\* The walk from an unknown cached parent_hash met a hash that the invalid
\* cache and the tree both hold, went past it and returned a hash further up.
C26_Witness ==
    \E parent_hash \in Blocks :
        LET x == HeaderParent(CachePeek(invalid_headers, parent_hash))
            r == LatestValidHashForInvalidPayload(invalid_headers, parent_hash).lvh
        IN  /\ BlockByHash(parent_hash) = NoHash
            /\ CachePeek(invalid_headers, parent_hash) # NoHash
            /\ CachePeek(invalid_headers, x) # NoHash
            /\ x \in DOMAIN blocks_by_hash
            /\ r # NoHash
            /\ r # x

\* Header::is_zero_difficulty of a block: PoW blocks have a difficulty,
\* the blocks after the merge have none.
ZeroDifficulty(h) == h \notin PowBlocks

\* The last call was answered INVALID for an invalid ancestor, and the
\* parent of the invalid header that was hit is a block of the tree or store.
RejectedWithKnownParent ==
    /\ last.kind = "ok"
    /\ last.path = "invalid_ancestor"
    /\ BlockByHash(RelevantParent(last)) # NoHash

\* C27, as claimed: the zero hash replaces parent_hash before the walk if
\* and only if the parent is found and has a difficulty of zero; the answer
\* then carries the zero hash, and the hash of any other known parent.
C27_Original ==
    /\ \A parent_hash \in Blocks :
          (InvalidResponseStart(parent_hash) = ZERO)
             <=> (BlockByHash(parent_hash) # NoHash /\ ZeroDifficulty(parent_hash))
    /\ RejectedWithKnownParent
          => last.lvh = IF ZeroDifficulty(RelevantParent(last))
                        THEN ZERO
                        ELSE RelevantParent(last)

\* C27, amended: the zero hash replaces parent_hash before the walk if and
\* only if the parent is found and is a PoW block, one whose difficulty is
\* not zero; the answer then carries the zero hash. For a known parent of
\* zero difficulty, and for an unknown parent, the walk starts from
\* parent_hash, and the answer carries the hash of the known parent.
C27_ZeroHashForPowParent ==
    /\ \A parent_hash \in Blocks :
          /\ (InvalidResponseStart(parent_hash) = ZERO)
                <=> (BlockByHash(parent_hash) # NoHash /\ ~ZeroDifficulty(parent_hash))
          /\ InvalidResponseStart(parent_hash) # ZERO
                => InvalidResponseStart(parent_hash) = parent_hash
    /\ RejectedWithKnownParent
          => last.lvh = IF ZeroDifficulty(RelevantParent(last))
                        THEN RelevantParent(last)
                        ELSE ZERO

\* A payload was rejected for an invalid header whose parent is the
\* terminal PoW block of the store: the answer carries the zero hash.
C27_Witness ==
    /\ RejectedWithKnownParent
    /\ ~ZeroDifficulty(RelevantParent(last))
    /\ RelevantParent(last) \in store
    /\ last.status = "INVALID"
    /\ last.lvh = ZERO

----------------------------------------------------------------------------
(* The hash checked against the invalid cache *)

\* Block h and its ancestors.
RECURSIVE Ancestry(_)
Ancestry(h) == IF h \notin Blocks THEN {} ELSE {h} \cup Ancestry(ParentOf[h])

\* The buffered blocks among h and its ancestors.
BufferedAncestry(h) == Ancestry(h) \cap BufferSet(buffer)

\* The one of them with the lowest number.
LowestBuffered(h) ==
    CHOOSE x \in BufferedAncestry(h) :
        \A y \in BufferedAncestry(h) : NumberOf[x] <= NumberOf[y]

\* C28: the hash on_new_payload checks against the invalid cache is the
\* parent hash of the lowest buffered block among the block and its
\* ancestors when there is one, the block's own parent hash when there is
\* none; lowest_buffered_ancestor_or(h) is h exactly when neither h nor
\* an ancestor of h is buffered, and the parent hash of h when h is the
\* only buffered block among them.
C28_CheckHash ==
    \A h \in Blocks :
        /\ InvalidAncestorCheckHash(h) =
              IF BufferedAncestry(h) # {}
              THEN ParentOf[LowestBuffered(h)]
              ELSE ParentOf[h]
        /\ (LowestBufferedAncestorOr(h) = h) <=> (BufferedAncestry(h) = {})
        /\ BufferedAncestry(h) = {h} => LowestBufferedAncestorOr(h) = ParentOf[h]

\* A block was submitted while its parent lay in the buffer: the hash
\* checked was the parent hash of that parent, not the block's own.
C28_Witness ==
    /\ last.kind = "ok"
    /\ last.path = "buffer"
    /\ last.payload.parent_hash \in BufferSet(buffer)
    /\ last.check = ParentOf[LowestBuffered(last.payload.block_hash)]
    /\ last.check # last.payload.parent_hash

----------------------------------------------------------------------------
(* The pipeline is active *)

\* C29, as claimed: with the pipeline active, a well-formed payload without
\* invalid ancestor is validated first; a block that passes is buffered and
\* answered SYNCING, a block that fails is not buffered, and the call still
\* returns a payload status.
C29_ActiveValidatesThenBuffers ==
    (last.active /\ last.path = "buffer")
        => /\ last.kind = "ok"
           /\ IF ValidateBlock(last.payload.block_hash)
                 /\ last.payload.block_hash \notin SenderFaultBlocks
              THEN /\ last.status = "SYNCING"
                   /\ last.payload.block_hash \in BufferSet(buffer)
              ELSE last.payload.block_hash \notin BufferSet(buffer)

----------------------------------------------------------------------------
(* The invalid-ancestor check *)

\* The step is an on_new_payload call that the invalid-ancestor check
\* answered.
RejectedForAncestor ==
    /\ IsCall
    /\ last'.kind = "ok"
    /\ last'.path = "invalid_ancestor"

\* The call ran neither validate_block, nor the executor, nor an insertion
\* into the tree or the buffer, and left everything but the invalid cache
\* as it was.
NothingButTheCache ==
    /\ last'.status = "INVALID"
    /\ ~last'.executed
    /\ last'.insert_res = "none"
    /\ UNCHANGED <<blocks_by_hash, blocks_by_number, buffer, is_pipeline_active,
                   sync_target>>

\* C30, as claimed: a payload that the invalid-ancestor check rejects is
\* neither buffered, nor validated, nor executed, nor inserted, whether the
\* pipeline is active or not; all the call changes is that the invalid
\* cache has one more entry, for the payload's hash.
C30_Original ==
    [][RejectedForAncestor
        => /\ NothingButTheCache
           /\ CacheKeys(invalid_headers') =
                 CacheKeys(invalid_headers) \cup {last'.payload.block_hash}
           /\ \A k \in CacheKeys(invalid_headers) \ {last'.payload.block_hash} :
                 CachePeek(invalid_headers', k) = CachePeek(invalid_headers, k)]_vars

\* C30, amended: such a payload is neither buffered, nor validated, nor
\* executed, nor inserted, whether the pipeline is active or not; the call
\* changes the invalid cache only: the payload's hash gets its entry, every
\* other entry that stays keeps its header, and one entry at most is
\* evicted, from a cache that was full.
C30_OnlyTheCacheChanges ==
    [][RejectedForAncestor
        => LET before == CacheKeys(invalid_headers)
               after  == CacheKeys(invalid_headers')
               head   == last'.payload.block_hash
           IN  /\ NothingButTheCache
               /\ head \in after
               /\ CachePeek(invalid_headers', head) = last'.hit_header
               /\ after \subseteq before \cup {head}
               /\ \A k \in after \ {head} :
                     CachePeek(invalid_headers', k) = CachePeek(invalid_headers, k)
               /\ Cardinality(before \ after) <= 1
               /\ before \ after # {} => Len(invalid_headers) = InvalidCacheCap]_vars

\* The pipeline was active, the payload was rejected for an invalid
\* ancestor and its hash is in the invalid cache, not in the buffer.
C30_Witness ==
    /\ last.kind = "ok"
    /\ last.path = "invalid_ancestor"
    /\ last.active
    /\ is_pipeline_active
    /\ last.status = "INVALID"
    /\ last.payload.block_hash \in CacheKeys(invalid_headers)
    /\ last.payload.block_hash \notin BufferSet(buffer)

----------------------------------------------------------------------------
(* Blocks submitted again *)

\* The step is an on_new_payload call for a block that the store or the
\* tree holds.
IsCallOfKnown ==
    /\ IsCall
    /\ \/ last'.payload.block_hash \in store
       \/ last'.payload.block_hash \in DOMAIN blocks_by_hash

\* C31: insert_executed is never called with a hash that blocks_by_hash
\* holds; a call that reaches insert_block_inner with a block of the store
\* or the tree, and whose lookup succeeds, gets AlreadySeen(Valid) and
\* does not execute; every call for such a block, and so every call for a
\* block answered VALID before, leaves blocks_by_hash and blocks_by_number
\* as they were.
C31_NoDuplicateInsert ==
    [][/\ (IsCall /\ last'.insert_res = "inserted_valid")
            => last'.payload.block_hash \notin DOMAIN blocks_by_hash
       /\ (IsCallOfKnown /\ last'.path = "insert"
             /\ last'.insert_res # "provider_error")
            => /\ last'.insert_res = "already_seen_valid"
               /\ ~last'.executed
               /\ last'.kind = "ok"
               /\ last'.status = "VALID"
       /\ IsCallOfKnown
            => /\ blocks_by_hash' = blocks_by_hash
               /\ blocks_by_number' = blocks_by_number
       /\ (IsCall /\ last'.payload.error = "ok"
             /\ last'.payload.block_hash \in valid_answered)
            => /\ blocks_by_hash' = blocks_by_hash
               /\ blocks_by_number' = blocks_by_number]_vars

\* A block of the tree, answered VALID by the first call, was submitted
\* again: it is AlreadySeen(Valid), was not executed, and the tree holds it
\* once.
C31_Witness ==
    /\ calls = 2
    /\ last.kind = "ok"
    /\ last.insert_res = "already_seen_valid"
    /\ ~last.executed
    /\ last.payload.block_hash \in DOMAIN blocks_by_hash
    /\ last.payload.block_hash \in valid_answered
    /\ Len(blocks_by_number[NumberOf[last.payload.block_hash]]) = 1

----------------------------------------------------------------------------
(* The overlay of state_provider *)

\* The hashes state_provider is called with
OverlayHashes == Hashes

\* state_provider(hash) is called on the tree; last keeps what it built
StateProviderCalled(hash) ==
    /\ last' = [kind |-> "state_provider", hash |-> hash,
                in_memory |-> StateProvider(hash)[1],
                historical |-> StateProvider(hash)[2]]
    /\ UNCHANGED <<blocks_by_hash, blocks_by_number, buffer, invalid_headers,
                   is_pipeline_active, sync_target, calls, marks, valid_answered,
                   answers_before, beside_tree>>

StateProviderCall == \E hash \in OverlayHashes : StateProviderCalled(hash)

OverlayNext ==
    \/ InsertExecuted
    \/ RemoveBeforeCall
    \/ StateProviderCall

\* state_provider on the trees that insert_executed and remove_before build.
OverlaySpec == TreeInit /\ [][OverlayNext]_vars

\* C32: the in-memory list of state_provider(hash) is the maximal chain of
\* tree blocks that ends at hash and is linked by parent_hash, oldest first
\* and the block hash last; the historical provider is asked for the parent
\* hash of the oldest block of the list; for a hash that is not in the tree
\* the list is empty and the historical provider is asked for hash itself.
C32_OverlayIsMaximalChain ==
    last.kind = "state_provider"
        => LET hash       == last.hash
               in_memory  == last.in_memory
               historical == last.historical
               n          == Len(in_memory)
           IN  /\ \A i \in 1..n :
                     /\ in_memory[i].hash \in DOMAIN blocks_by_hash
                     /\ in_memory[i] = blocks_by_hash[in_memory[i].hash]
               /\ \A i \in 2..n : in_memory[i].parent_hash = in_memory[i - 1].hash
               /\ historical \notin DOMAIN blocks_by_hash
               /\ IF hash \in DOMAIN blocks_by_hash
                  THEN /\ n >= 1
                       /\ in_memory[n].hash = hash
                       /\ historical = in_memory[1].parent_hash
                  ELSE /\ n = 0
                       /\ historical = hash

\* state_provider was called with the newest block of a chain of three tree
\* blocks whose oldest block has its parent outside the tree, while the tree
\* holds another block too.
C32_Witness ==
    /\ last.kind = "state_provider"
    /\ Len(last.in_memory) = 3
    /\ last.in_memory[3].hash = last.hash
    /\ Cardinality(DOMAIN blocks_by_hash) > 3
    /\ last.historical \in store

----------------------------------------------------------------------------
(* The order of blocks_by_number *)

\* The step is an insert_executed call.
IsInsertExecuted ==
    /\ last'.kind = "insert_executed"
    /\ blocks_by_hash' # blocks_by_hash

\* The blocks listed at number n, none when the index has no such key
ListedAt(bn, n) == IF n \in DOMAIN bn THEN bn[n] ELSE <<>>

\* C33: blocks_by_number keeps several blocks per number, in the order
\* insert_executed inserted them: an insertion puts the block after the
\* blocks already listed at its number, which keep their places, and leaves
\* the list of every other number as it was.
C33_NumberIndexKeepsOrder ==
    [][IsInsertExecuted
        => LET h      == last'.hash
               before == ListedAt(blocks_by_number, NumberOf[h])
               after  == ListedAt(blocks_by_number', NumberOf[h])
           IN  /\ Len(after) = Len(before) + 1
               /\ \A i \in 1..Len(before) : after[i] = before[i]
               /\ after[Len(after)].hash = h
               /\ DOMAIN blocks_by_number' = DOMAIN blocks_by_number \cup {NumberOf[h]}
               /\ \A n \in DOMAIN blocks_by_number \ {NumberOf[h]} :
                     blocks_by_number'[n] = blocks_by_number[n]]_vars

\* Blocks 4 and 3, of one number, were inserted in this order, and are listed
\* in this order beside the blocks of another number.
C33_Witness ==
    /\ last.kind = "insert_executed"
    /\ last.hash = 3
    /\ 2 \in DOMAIN blocks_by_number
    /\ Len(blocks_by_number[2]) = 2
    /\ blocks_by_number[2][1].hash = 4
    /\ blocks_by_number[2][2].hash = 3
    /\ Cardinality(DOMAIN blocks_by_number) >= 2

----------------------------------------------------------------------------
(* Ill-formed payloads *)

\* The step is an on_new_payload call that ensure_well_formed_payload
\* rejected.
RejectedAsIllFormed ==
    /\ IsCall
    /\ last'.payload.error # "ok"

\* The entries of the invalid cache, whatever their recency
CacheEntries(c) == {<<c[i].key, c[i].hdr>> : i \in 1..Len(c)}

\* C34: a call that rejects the payload at well-formedness validation leaves
\* the tree, the buffer and the set of entries of the invalid cache as they
\* were, does not invoke the executor, and returns an outcome without event.
C34_IllFormedChangesNothing ==
    [][RejectedAsIllFormed
        => /\ last'.path = "well_formedness"
           /\ blocks_by_hash' = blocks_by_hash
           /\ blocks_by_number' = blocks_by_number
           /\ buffer' = buffer
           /\ CacheEntries(invalid_headers') = CacheEntries(invalid_headers)
           /\ ~last'.executed
           /\ last'.insert_res = "none"
           /\ last'.event = NoHash]_vars

\* An ill-formed payload met a tree and an invalid cache that were not
\* empty, its latest valid hash was looked up through the cache, and the
\* sync target was the hash it declared.
C34_Witness ==
    /\ last.kind = "ok"
    /\ last.path = "well_formedness"
    /\ last.payload.error = "other"
    /\ last.payload.parent_hash \in CacheKeys(invalid_headers)
    /\ last.lvh \in DOMAIN blocks_by_hash
    /\ last.status = "INVALID"
    /\ sync_target = last.payload.block_hash

----------------------------------------------------------------------------
(* latest_valid_hash_for_invalid_payload, step by step *)

\* The hashes latest_valid_hash_for_invalid_payload is called with
WalkHashes == Hashes

\* What the provider does during a step of the call
WalkFaults == {"none", "provider"}

\* latest_valid_hash_for_invalid_payload is called: the parent is looked up,
\* and if it is not known, current_hash and current_header are set.
LvhCalled(parent_hash, fault) ==
    /\ Running
    /\ lvh_at = "idle"
    /\ IF fault = "provider"
       THEN /\ lvh_at' = "failed"
            /\ UNCHANGED <<lvh_current_hash, lvh_current_header, lvh_returned,
                           invalid_headers>>
       ELSE IF BlockByHash(parent_hash) # NoHash
       THEN /\ lvh_at' = "returned"
            /\ lvh_returned' = parent_hash
            /\ UNCHANGED <<lvh_current_hash, lvh_current_header, invalid_headers>>
       ELSE /\ lvh_at' = "while"
            /\ lvh_current_hash' = parent_hash
            /\ lvh_current_header' = CachePeek(invalid_headers, parent_hash)
            /\ invalid_headers' = CacheTouch(invalid_headers, parent_hash)
            /\ UNCHANGED lvh_returned
    /\ UNCHANGED <<blocks_by_hash, blocks_by_number, buffer, is_pipeline_active,
                   sync_target, calls, marks, valid_answered, last, answers_before,
                   beside_walk>>

\* One evaluation of the loop condition, and of the loop body if it holds.
LvhWhile(fault) ==
    /\ lvh_at = "while"
    /\ IF lvh_current_header = NoHash
       THEN /\ lvh_at' = "returned"
            /\ lvh_returned' = NoHash
            /\ UNCHANGED <<lvh_current_hash, lvh_current_header, invalid_headers>>
       ELSE LET next_hash   == HeaderParent(lvh_current_header)
                next_header == CachePeek(invalid_headers, next_hash)
            IN  /\ lvh_current_hash' = next_hash
                /\ lvh_current_header' = next_header
                /\ invalid_headers' = CacheTouch(invalid_headers, next_hash)
                /\ IF next_header # NoHash
                   THEN UNCHANGED <<lvh_at, lvh_returned>>
                   ELSE IF fault = "provider"
                   THEN lvh_at' = "failed" /\ UNCHANGED lvh_returned
                   ELSE IF BlockByHash(next_hash) # NoHash
                   THEN lvh_at' = "returned" /\ lvh_returned' = next_hash
                   ELSE UNCHANGED <<lvh_at, lvh_returned>>
    /\ UNCHANGED <<blocks_by_hash, blocks_by_number, buffer, is_pipeline_active,
                   sync_target, calls, marks, valid_answered, last, answers_before,
                   beside_walk>>

\* The payloads submitted before the call: the well-formed ones, which
\* alone get past ensure_well_formed_payload to the invalid cache's insertion
WalkPayloads == {payload \in Payloads : payload.error = "ok"}

\* on_new_payload is called before the call, the collaborators answering.
WalkNewPayload ==
    /\ lvh_at = "idle"
    /\ \E payload \in WalkPayloads : OnNewPayload(payload, "none")
    /\ UNCHANGED <<answers_before, beside_tree>>

\* A header is marked invalid before the call.
WalkMark == lvh_at = "idle" /\ Mark

WalkCall == \E parent_hash \in WalkHashes, fault \in WalkFaults : LvhCalled(parent_hash, fault)

WalkStep == \E fault \in WalkFaults : LvhWhile(fault)

WalkNext ==
    \/ WalkNewPayload
    \/ WalkMark
    \/ WalkCall
    \/ WalkStep

\* A latest_valid_hash_for_invalid_payload call on a handler that
\* on_new_payload calls and marked headers brought where it is.
WalkSpec == TreeInit /\ [][WalkNext]_vars

\* The same, the call running on once it has started.
WalkLiveSpec == WalkSpec /\ WF_vars(WalkStep)

\* The parent link of the entry with key k: the parent hash of its header
CacheLink(c, k) == HeaderParent(CachePeek(c, k))

\* The keys met when following the parent links of c from k, n links at most
RECURSIVE LinkedFrom(_, _, _)
LinkedFrom(c, k, n) ==
    IF n = 0 \/ k \notin CacheKeys(c)
    THEN {}
    ELSE {CacheLink(c, k)} \cup LinkedFrom(c, CacheLink(c, k), n - 1)

\* The parent links of c are acyclic: no key is met again by following them.
Acyclic(c) == \A k \in CacheKeys(c) : k \notin LinkedFrom(c, k, Len(c))

\* C35: the invalid cache that on_new_payload calls build has acyclic parent
\* links, and every latest_valid_hash_for_invalid_payload call, for whatever
\* parent_hash, comes to its end when the cache is acyclic.
C35_WalkTerminates ==
    /\ [](Acyclic(invalid_headers))
    /\ (lvh_at = "while" /\ Acyclic(invalid_headers)) ~> (lvh_at \in {"returned", "failed"})

\* The call went two links up the invalid cache, which on_new_payload had
\* added an entry to, and returned the ancestor it found.
C35_Witness ==
    /\ lvh_at = "returned"
    /\ lvh_returned = 1
    /\ Len(invalid_headers) = 2
    /\ \E k \in CacheKeys(invalid_headers) :
          /\ CachePeek(invalid_headers, k) # k
          /\ CacheLink(invalid_headers, k) \in CacheKeys(invalid_headers)
          /\ CacheLink(invalid_headers, CacheLink(invalid_headers, k)) = lvh_current_hash
    /\ last.path = "invalid_ancestor"

----------------------------------------------------------------------------
(* The two indices hold the same blocks *)

\* The places of blocks_by_number: <<number, position in the vector>>
Places(bn) == UNION {{<<n, i>> : i \in DOMAIN bn[n]} : n \in DOMAIN bn}

\* The index holds every block it lists under the block's own number, and
\* under its hash in bh, once, and has no empty vector.
SameBlocks(bh, bn) ==
    /\ \A n \in DOMAIN bn : bn[n] # <<>>
    /\ \A p \in Places(bn) :
          LET block == bn[p[1]][p[2]]
          IN  /\ block.number = p[1]
              /\ block.hash \in DOMAIN bh
              /\ bh[block.hash] = block
              /\ \A q \in Places(bn) : bn[q[1]][q[2]].hash = block.hash => q = p
    /\ Cardinality(Places(bn)) = Cardinality(DOMAIN bh)

\* The blocks remove_before(block_number) pops off bn
Popped(bn, block_number) == {p \in Places(bn) : p[1] < block_number}

\* C36: blocks_by_number and blocks_by_hash hold the same blocks: every
\* block listed at a number has that number, is in blocks_by_hash under its
\* hash, is listed once, no number has an empty list, and the two indices
\* have the same number of blocks; every hash remove_before removed was in
\* blocks_by_hash.
C36_SameBlocksInBothIndices ==
    /\ SameBlocks(blocks_by_hash, blocks_by_number)
    /\ last.kind = "remove_before"
         => /\ \A p \in Popped(last.bn, last.block_number) :
                  last.bn[p[1]][p[2]].hash \in DOMAIN last.bh
            /\ Cardinality(DOMAIN last.bh) - Cardinality(DOMAIN blocks_by_hash)
                  = Cardinality(Popped(last.bn, last.block_number))

\* remove_before removed the blocks of two numbers, three blocks in all, and
\* left the two blocks of a third number in both indices.
C36_Witness ==
    /\ last.kind = "remove_before"
    /\ Cardinality(Popped(last.bn, last.block_number)) = 3
    /\ Cardinality(DOMAIN last.bn \ DOMAIN blocks_by_number) = 2
    /\ Cardinality(DOMAIN blocks_by_hash) = 2
    /\ \E n \in DOMAIN blocks_by_number : Len(blocks_by_number[n]) = 2

----------------------------------------------------------------------------
(* The registration message of the handle *)

\* The id under which transition_configuration_exchanged messages are
\* recorded in sent and taken
TransitionId == MaxRequests + 1

\* How many times id occurs in the sequence of ids s
Occurrences(s, id) == Cardinality({i \in DOMAIN s : s[i] = id})

\* BeaconConsensusEngineHandle::transition_configuration_exchanged: the
\* message is sent, no reply is awaited.  On a closed channel the send
\* fails, its result is ignored and nothing changes.
HandleTransitionConfigurationExchanged ==
    /\ Occurrences(sent, TransitionId) < MaxNotifications
    /\ rx_open
    /\ to_engine' = Send(to_engine, Message("TransitionConfigurationExchanged",
                                            TransitionId, NoCall.payload, NoHash))
    /\ sent' = Append(sent, TransitionId)
    /\ UNCHANGED <<rx_open, oneshot, awaiting, in_handler, taken, tree_vars,
                   beside_handle>>

\* HandleCloned sending a registration message of its own, as new does
HandleClonedRegisters ==
    /\ handles < 1 + MaxClones
    /\ handles' = handles + 1
    /\ to_engine' = Send(to_engine, Message("EventListener", 0, NoCall.payload, NoHash))
    /\ sent' = Append(sent, 0)
    /\ UNCHANGED <<rx_open, oneshot, awaiting, in_handler, taken, tree_vars,
                   stage_vars, walk_vars, launch_vars, exec_vars>>

\* Clone for BeaconConsensusEngineHandle: the sender and the listeners are
\* cloned, nothing is sent.
HandleCloned ==
    /\ handles < 1 + MaxClones
    /\ handles' = handles + 1
    /\ UNCHANGED beside_clone

CloneNext ==
    \/ HandleNext
    \/ HandleCloned
    \/ HandleTransitionConfigurationExchanged

\* Callers of the handle and of its clones, which share to_engine, and the
\* engine behind it.
CloneSpec == Init /\ [][CloneNext]_vars

\* C37: the handle that new created has sent one EventListener message, which
\* no clone sends again, and this message is in the queue before every
\* NewPayload, ForkchoiceUpdated and TransitionConfigurationExchanged message
\* sent through the handle or a clone of it: it was sent first, it is at the
\* head of the queue as long as it is queued, and the engine takes it first.
C37_OneRegistrationFirst ==
    /\ Occurrences(sent, 0) = 1
    /\ sent[1] = 0
    /\ \A i \in DOMAIN to_engine : to_engine[i].kind = "EventListener" <=> to_engine[i].id = 0
    /\ \A i \in DOMAIN to_engine : to_engine[i].id = 0 => i = 1
    /\ taken # <<>> => taken[1] = 0
    /\ Occurrences(taken, 0) <= 1

\* The handle was cloned, and a NewPayload, a ForkchoiceUpdated and a
\* TransitionConfigurationExchanged message are queued behind the
\* EventListener message.
C37_Witness ==
    /\ handles = 2
    /\ Len(to_engine) = 4
    /\ to_engine[1].kind = "EventListener"
    /\ {to_engine[i].kind : i \in 2..4}
          = {"NewPayload", "ForkchoiceUpdated", "TransitionConfigurationExchanged"}

----------------------------------------------------------------------------
(* launch_rpc_servers (crates/node/builder/src/rpc.rs) *)

\* What launch_answers holds: the answers of config.rpc.auth_server_config,
\* of the extend_rpc_modules hook, of the two start_server futures and of
\* the on_rpc_started hook
AuthConfigOk == launch_answers[1]
ExtendOk == launch_answers[2]
RpcStartOk == launch_answers[3]
AuthStartOk == launch_answers[4]
OnStartedOk == launch_answers[5]

\* launch_rpc_servers is called, with collaborators answering in every way.
LaunchInit ==
    /\ TreeNew /\ sync_target = NoHash
    /\ HandleNew
    /\ StageIdle
    /\ WalkIdle
    /\ ExecIdle
    /\ launch_at = "start"
    /\ launch_answers \in BOOLEAN \X BOOLEAN \X BOOLEAN \X BOOLEAN \X BOOLEAN
    /\ rpc_server = "idle"
    /\ auth_server = "idle"
    /\ extend_rpc_modules_calls = 0
    /\ on_rpc_started_calls = 0

\* config.rpc.auth_server_config(jwt_secret)?, then the modules are built
AuthServerConfig ==
    /\ launch_at = "start"
    /\ launch_at' = IF AuthConfigOk THEN "built" ELSE "returned_err"
    /\ UNCHANGED <<launch_answers, rpc_server, auth_server,
                   extend_rpc_modules_calls, on_rpc_started_calls, beside_launch>>

\* extend_rpc_modules.extend_rpc_modules(ctx)?
ExtendRpcModules ==
    /\ launch_at = "built"
    /\ extend_rpc_modules_calls' = extend_rpc_modules_calls + 1
    /\ launch_at' = IF ExtendOk THEN "extended" ELSE "returned_err"
    /\ UNCHANGED <<launch_answers, rpc_server, auth_server, on_rpc_started_calls,
                   beside_launch>>

\* try_join(launch_rpc, launch_auth) is awaited: its first poll polls both
\* futures, and both servers begin to start.
TryJoinPolled ==
    /\ launch_at = "extended"
    /\ launch_at' = "joining"
    /\ rpc_server' = "starting"
    /\ auth_server' = "starting"
    /\ UNCHANGED <<launch_answers, extend_rpc_modules_calls, on_rpc_started_calls,
                   beside_launch>>

\* modules.start_server(server_config) completes
RpcServerStarted ==
    /\ launch_at = "joining"
    /\ rpc_server = "starting"
    /\ rpc_server' = IF RpcStartOk THEN "started" ELSE "failed"
    /\ UNCHANGED <<launch_at, launch_answers, auth_server, extend_rpc_modules_calls,
                   on_rpc_started_calls, beside_launch>>

\* auth_module.start_server(auth_config) completes
AuthServerStarted ==
    /\ launch_at = "joining"
    /\ auth_server = "starting"
    /\ auth_server' = IF AuthStartOk THEN "started" ELSE "failed"
    /\ UNCHANGED <<launch_at, launch_answers, rpc_server, extend_rpc_modules_calls,
                   on_rpc_started_calls, beside_launch>>

\* What becomes of a future of a try_join that returns Err: one that has not
\* completed is dropped.
Dropped(server) == IF server = "starting" THEN "dropped" ELSE server

\* TryJoinReturns giving the handles as soon as one server has started
TryJoinReturnsFirst ==
    /\ launch_at = "joining"
    /\ \/ /\ "failed" \in {rpc_server, auth_server}
          /\ launch_at' = "returned_err"
          /\ rpc_server' = Dropped(rpc_server)
          /\ auth_server' = Dropped(auth_server)
       \/ /\ "failed" \notin {rpc_server, auth_server}
          /\ "started" \in {rpc_server, auth_server}
          /\ launch_at' = "joined"
          /\ UNCHANGED <<rpc_server, auth_server>>
    /\ UNCHANGED <<launch_answers, extend_rpc_modules_calls, on_rpc_started_calls,
                   beside_launch>>

\* try_join(..).await?: Err as soon as one future has failed, the handles
\* once both have completed
TryJoinReturns ==
    /\ launch_at = "joining"
    /\ \/ /\ "failed" \in {rpc_server, auth_server}
          /\ launch_at' = "returned_err"
          /\ rpc_server' = Dropped(rpc_server)
          /\ auth_server' = Dropped(auth_server)
       \/ /\ rpc_server = "started"
          /\ auth_server = "started"
          /\ launch_at' = "joined"
          /\ UNCHANGED <<rpc_server, auth_server>>
    /\ UNCHANGED <<launch_answers, extend_rpc_modules_calls, on_rpc_started_calls,
                   beside_launch>>

\* on_rpc_started.on_rpc_started(ctx, handles.clone())?, and the return
OnRpcStarted ==
    /\ launch_at = "joined"
    /\ on_rpc_started_calls' = on_rpc_started_calls + 1
    /\ launch_at' = IF OnStartedOk THEN "returned_ok" ELSE "returned_err"
    /\ UNCHANGED <<launch_answers, rpc_server, auth_server, extend_rpc_modules_calls,
                   beside_launch>>

LaunchNext ==
    \/ AuthServerConfig
    \/ ExtendRpcModules
    \/ TryJoinPolled
    \/ RpcServerStarted
    \/ AuthServerStarted
    \/ TryJoinReturns
    \/ OnRpcStarted

\* One call of launch_rpc_servers.
LaunchSpec == LaunchInit /\ [][LaunchNext]_vars

\* The future of the server was polled.
Begun(server) == server # "idle"

U64 == 0 .. (2 ^ U64Bits - 1)

\* Option<u64>::unwrap_or_default.
UnwrapOrDefault(option) == IF option = <<>> THEN 0 ELSE option[1]

\* u64::min.
Min(a, b) == IF a <= b THEN a ELSE b

\* Command::execute has built the pipeline and is about to read the Finish
\* checkpoint; `to` and `interval` are whatever u64 the command line gave.
ExecInit ==
    /\ TreeNew
    /\ sync_target = NoHash
    /\ HandleNew
    /\ StageIdle
    /\ WalkIdle
    /\ LaunchIdle
    /\ exec_at = "start"
    /\ to \in U64
    /\ interval \in U64
    /\ latest_block_number \in {<<>>} \cup {<<n>> : n \in U64}
    /\ current_max_block = 0
    /\ target_block = 0
    /\ ranges = {}

\* if latest_block_number.unwrap_or_default() >= self.to { return Ok(()) }
NothingToRun ==
    /\ exec_at = "start"
    /\ UnwrapOrDefault(latest_block_number) >= to
    /\ exec_at' = "returned"
    /\ UNCHANGED <<to, interval, latest_block_number, current_max_block,
                   target_block, ranges, beside_exec>>

\* let mut current_max_block = latest_block_number.unwrap_or_default();
LoopEntered ==
    /\ exec_at = "start"
    /\ ~(UnwrapOrDefault(latest_block_number) >= to)
    /\ current_max_block' = UnwrapOrDefault(latest_block_number)
    /\ exec_at' = "while"
    /\ UNCHANGED <<to, interval, latest_block_number, target_block, ranges,
                   beside_exec>>

\* The loop's test is true: next_block and target_block are computed.
\* current_max_block + self.interval is a u64 addition: when the sum does not
\* fit, a build with overflow checks panics and a build without them wraps.
WhileBody ==
    /\ exec_at = "while"
    /\ current_max_block < to
    /\ IF current_max_block + interval \in U64
         THEN /\ target_block' = Min(to, current_max_block + interval)
              /\ exec_at' = "run"
         ELSE \/ /\ exec_at' = "panicked"
                 /\ UNCHANGED target_block
              \/ /\ target_block'
                       = Min(to, (current_max_block + interval) % (2 ^ U64Bits))
                 /\ exec_at' = "run"
    /\ UNCHANGED <<to, interval, latest_block_number, current_max_block, ranges,
                   beside_exec>>

\* The loop's test is false: Ok(()).
WhileDone ==
    /\ exec_at = "while"
    /\ ~(current_max_block < to)
    /\ exec_at' = "returned"
    /\ UNCHANGED <<to, interval, latest_block_number, current_max_block,
                   target_block, ranges, beside_exec>>

\* The header of target_block is fetched, the pipeline runs to it, the range
\* next_block..=target_block is taken out again, and current_max_block is
\* updated.
PipelineRun ==
    /\ exec_at = "run"
    /\ ranges' = ranges \cup {<<current_max_block + 1, target_block>>}
    /\ current_max_block' = target_block
    /\ exec_at' = "while"
    /\ UNCHANGED <<to, interval, latest_block_number, target_block, beside_exec>>

\* One of the `?` returns an error: reading the checkpoint, fetching the
\* header, running the pipeline, or taking the range.
ExecFails ==
    /\ exec_at \in {"start", "run"}
    /\ exec_at' = "failed"
    /\ UNCHANGED <<to, interval, latest_block_number, current_max_block,
                   target_block, ranges, beside_exec>>

ExecNext ==
    \/ NothingToRun
    \/ LoopEntered
    \/ WhileBody
    \/ WhileDone
    \/ PipelineRun
    \/ ExecFails

ExecSpec == ExecInit /\ [][ExecNext]_vars

\* Command::execute is one task, and each call it awaits completes: it always
\* takes its next step.
ExecLiveSpec == ExecSpec /\ WF_vars(ExecNext)

\* The block numbers of a range next_block..=target_block.
RangeBlocks(range) == range[1] .. range[2]

\* The ranges taken so far do not overlap, and together they are the blocks
\* from the one after the checkpoint to current_max_block.
ContiguousRanges ==
    /\ \A r1, r2 \in ranges : r1 # r2 => RangeBlocks(r1) \cap RangeBlocks(r2) = {}
    /\ exec_at \in {"while", "returned"} /\ ranges # {}
          => UNION {RangeBlocks(r) : r \in ranges}
               = (UnwrapOrDefault(latest_block_number) + 1) .. current_max_block

\* C39: the run loop of `reth debug execution` terminates for every `to`,
\* every Finish checkpoint and every `interval` (0 included): each iteration
\* strictly increases current_max_block, the ranges next_block..=target_block
\* of the iterations are contiguous and do not overlap, the loop exits with
\* current_max_block = to, and when the checkpoint is already >= to the
\* pipeline is never run.
C39_RunLoopTerminates ==
    /\ <>(exec_at \in {"returned", "failed", "panicked"})
    /\ [][exec_at = "run" /\ exec_at' = "while"
            => current_max_block' > current_max_block]_vars
    /\ [](ContiguousRanges)
    /\ []((exec_at = "returned" /\ UnwrapOrDefault(latest_block_number) < to)
            => current_max_block = to)
    /\ [](UnwrapOrDefault(latest_block_number) >= to
            => exec_at \notin {"while", "run", "panicked"} /\ ranges = {})

====
